---- MODULE Spec2Model ----
(***************************************************************************)
(* A model of the Whimmy channel plugin (channel.ts): the per-account      *)
(* connection registry, the approval / question waiter tables, the inbound *)
(* message handler of a socket and the agent turn it starts.               *)
(*                                                                         *)
(* Scheduling is the Node.js event loop: every action below is one         *)
(* macrotask (a socket event, a timer, the completion of an awaited I/O    *)
(* operation) run to its next await.  A continuation that resumes through  *)
(* the microtask queue (startAccount after connectWebSocket returns) runs  *)
(* before any other macrotask: pendingResume names it.                     *)
(***************************************************************************)
EXTENDS Integers, Sequences, FiniteSets, TLC

\* ---------------------------------------------------------------- bounds
MaxSockets == 2
MaxCalls == 3
MaxIds == 2
MaxChunks == 2
MaxMedia == 1
MaxTextLen == 3
MaxPartials == 3
MaxTotal == 3
MaxTurnEnds == 3
MaxListLen == 2
MaxKeyLen == 2
MaxBroadcasts == 3
MaxFrames == 2
MaxRequests == 2
MaxDirFiles == 11
MaxNotes == 1

\* ------------------------------------------------------------- constants
NormalClosure == 1000
MEMORY_SUBDIR_MAX_FILES == 10
MEMORY_MAX_TOTAL_BYTES == 102400

None == 0
Undefined == -1
Accounts == {"default", "work"}
Started == {"default"}
SockIds == 1..MaxSockets
CallIds == 1..MaxCalls
TurnCalls == {1}
TurnIds == {1}
CorrIds == 1..MaxIds
CloseReasons == {"replaced", "unknown"}

VARIABLES
    activeConnections,  \* accountId -> socket registered for it, or None
    sockets,            \* socket -> its ws state and its closure's variables
    status,             \* accountId -> the runtime status (ctx.setStatus)
    calls,              \* startAccount call -> where it stands
    pendingResume,      \* the call whose continuation is in the microtask queue
    approvalWaiters,    \* executionId's with a waiter in the table
    askUserQuestionWaiters, \* questionId's with a waiter in the table
    timers,             \* correlation ids whose timeout timer is armed
    corr,               \* correlation id -> the promise issued for it
    turns,              \* hook.agent turn -> where it stands
    agentConfigCache,   \* agentId -> the agent configuration of its latest request
    sessionApprovals,   \* agentId -> the tool names approved in session mode
    broadcasts,         \* the events handed to broadcastEvent, in order
    hookLog,            \* the level of the latest entry the answer handlers logged
    reply,              \* one dispatch's partial replies: the texts, lastPartialText, the chunks
    usage,              \* lastCumulativeTokens, and what each turn's end read and reported
    matching,           \* one call of toolMatchesApprovalList: its arguments and result
    routing,            \* one session key: derived by a turn, recovered by the hook
    inbound,            \* the frames no handler takes: how many, the log, the errors not caught
    outbound,           \* the latest outbound.sendText / sendMedia / handleAction call
    hashCache,          \* sync.ts: agentId -> the hash of the configuration last synced
    configFile,         \* the OpenClaw configuration as persisted (loadConfig / writeConfigFile)
    soul,               \* agentId -> the content of the agent's SOUL.md
    cached,             \* agentConfigCache as references: agentId -> the request whose agentConfig it holds
    requests,           \* hook.agent request -> its agentConfig object and where its turn stands
    memory              \* the agent's memory files, memoryHashCache and the latest memory sync

vars == <<activeConnections, sockets, status, calls, pendingResume,
          approvalWaiters, askUserQuestionWaiters, timers, corr, turns,
          agentConfigCache, sessionApprovals, broadcasts, hookLog,
          reply, usage, matching, routing, inbound, outbound,
          hashCache, configFile, soul, cached, requests, memory>>

\* The state of the functions that the per-function specifications exercise.
syncVars == <<hashCache, configFile, soul, cached, requests, memory>>
moreVars == <<inbound, outbound, syncVars>>
funcVars == <<reply, usage, matching, routing, moreVars>>

pluginVars == <<activeConnections, sockets, status, calls, pendingResume,
                approvalWaiters, askUserQuestionWaiters, timers, corr, turns,
                agentConfigCache, sessionApprovals, broadcasts, hookLog>>

hookVars == <<agentConfigCache, sessionApprovals, broadcasts, hookLog>>

connVars == <<activeConnections, sockets, status, calls, pendingResume>>
waitVars == <<approvalWaiters, askUserQuestionWaiters, timers, corr>>

\* ------------------------------------------------------------ the sockets
NoSocket ==
    [acct |-> "none", readyState |-> "NONE", stopped |-> FALSE,
     closeCalls |-> 0, closeCode |-> 0, health |-> 0]

NewSocket(a) ==
    [acct |-> a, readyState |-> "CONNECTING", stopped |-> FALSE,
     closeCalls |-> 0, closeCode |-> 0, health |-> 0]

Created == {s \in SockIds : sockets[s].readyState # "NONE"}
nextSock == Cardinality(Created) + 1

defaultRuntime ==
    [running |-> FALSE, lastStartAt |-> FALSE, lastStopAt |-> FALSE, lastError |-> "null"]

NoCall ==
    [acct |-> "none", pc |-> "idle", sock |-> None, aborted |-> FALSE, listener |-> FALSE]

\* sendEnvelope: the frame is written only to an OPEN socket.
sendEnvelope(W, s) == W[s].readyState = "OPEN"

\* sendEvent wraps the event in an envelope and sends it.
sendEvent(W, s) == sendEnvelope(W, s)

\* The stop function of socket s, applied to (sockets, registry, status).
stopFnNoStateCheck(s, W, R, S) ==
    LET a == W[s].acct IN
    [sockets |-> [W EXCEPT ![s] = [@ EXCEPT !.stopped = TRUE,
                                             !.readyState = "CLOSING",
                                             !.closeCalls = @ + 1,
                                             !.closeCode = NormalClosure]],
     status |-> [S EXCEPT ![a] = [@ EXCEPT !.running = FALSE, !.lastStopAt = TRUE]],
     reg |-> [R EXCEPT ![a] = None]]

stopFn(s, W, R, S) ==
    LET a == W[s].acct
        closes == W[s].readyState \in {"CONNECTING", "OPEN"}
    IN
    [sockets |-> [W EXCEPT ![s] = [@ EXCEPT !.stopped = TRUE,
                                             !.readyState = IF closes THEN "CLOSING" ELSE @,
                                             !.closeCalls = IF closes THEN @ + 1 ELSE @,
                                             !.closeCode = IF closes THEN NormalClosure ELSE @]],
     status |-> [S EXCEPT ![a] = [@ EXCEPT !.running = FALSE, !.lastStopAt = TRUE]],
     reg |-> [R EXCEPT ![a] = None]]

\* -------------------------------------------------- the correlation tables
NoError == [message |-> "none", id |-> None]

\* `Approval timed out after ...ms (executionId=...)`, and the same for a question.
TimeoutError(i) ==
    [message |-> IF corr[i].kind = "approval" THEN "Approval timed out"
                 ELSE "AskUserQuestion timed out",
     id |-> i]

NoCorr ==
    [kind |-> "none", promise |-> "pending", resolveRan |-> FALSE,
     timeoutRan |-> FALSE, turn |-> None, hook |-> "none",
     toolName |-> "none", mode |-> "none", error |-> NoError]

Issued == {i \in CorrIds : corr[i].kind # "none"}
nextId == Cardinality(Issued) + 1

\* A promise is settled by the first resolve or reject only.
settle(p, outcome) == IF p = "pending" THEN outcome ELSE p

\* ------------------------------------------------------------- the turns
\* What before_tool_call returned: nothing (the call runs with its parameters),
\* block with a reason, or the parameters with the answers added.
NoReturn ==
    [toolName |-> "none", error |-> NoError, block |-> FALSE, blockReason |-> "none",
     names |-> "none", params |-> "none", answers |-> "none"]

Proceeds(toolName) == [NoReturn EXCEPT !.toolName = toolName, !.params = "unmodified"]

Blocked(toolName, blockReason, names, error) ==
    [NoReturn EXCEPT !.toolName = toolName, !.block = TRUE, !.blockReason = blockReason,
                     !.names = names, !.error = error]

WithAnswers(toolName, answers) ==
    [NoReturn EXCEPT !.toolName = toolName, !.params = "withAnswers", !.answers = answers]

NoTurn ==
    [pc |-> "none", sock |-> None, sent |-> <<>>, chunks |-> 0, media |-> 0,
     uploading |-> FALSE, corrId |-> None, agentId |-> "none", ret |-> NoReturn,
     dispatchErr |-> FALSE]

\* ------------------------------------------------- the agent configurations
Agents == {"a1", "a2"}
FirstAgents == {"a1"}

\* Tool names of the calls a turn makes.
HookTools == {"exec", "Read", "AskUserQuestion", "ask_user_question"}
isQuestionTool(toolName) == toolName \in {"AskUserQuestion", "ask_user_question"}

\* The answers of a hook.ask_user_answer frame.
AnswerMaps == {"answersA", "answersB"}

\* approvals absent or not enabled; a tools list left out is ["*"].
NoApprovals == [mode |-> "always", enabled |-> FALSE, tools |-> <<"*">>]

ApprovalConfigs ==
    {NoApprovals} \cup [enabled : {TRUE}, mode : {"always", "session"},
                        tools : {<<"*">>, <<"Bash">>}]

\* askUserQuestion.enabled is FALSE only when the configuration says false.
AgentConfigs == [approvals : ApprovalConfigs, askUserQuestion : [enabled : BOOLEAN]]

NoConfig == [approvals |-> NoApprovals, askUserQuestion |-> [enabled |-> TRUE]]

\* broadcastEvent: one frame is written to every registered OPEN socket, of
\* whichever account.
broadcastToDefault ==
    {s \in SockIds : activeConnections["default"] = s /\ sendEvent(sockets, s)}

broadcastTo ==
    {s \in SockIds : \E a \in Accounts : activeConnections[a] = s /\ sendEvent(sockets, s)}

broadcastEvent == Cardinality(broadcastTo)

Bcast(event, id, toolName) ==
    [id |-> id, toolName |-> toolName, event |-> event, frames |-> broadcastEvent,
     to |-> broadcastTo]

Ev(e, n, err) == [event |-> e, n |-> n, err |-> err]
Typing == Ev("chat.presence.typing", 0, FALSE)
Idle == Ev("chat.presence.idle", 0, FALSE)
Chunk(n) == Ev("chat.chunk", n, FALSE)
Media == Ev("chat.media", 0, FALSE)
MemorySync == Ev("agent.memory_sync", 0, FALSE)
Done == Ev("chat.done", 0, FALSE)
DoneError == Ev("chat.done", 0, TRUE)

\* The events of es that sendEvent writes to the turn's socket, appended to its log.
emit(W, t, es) ==
    IF sendEvent(W, turns[t].sock) THEN turns[t].sent \o es ELSE turns[t].sent

\* ------------------------------------------------------------- the strings
\* A string is the sequence of its characters.
Whitespace == {" "}
Chars == {"a", " "}

RECURSIVE StringsUpTo(_)
StringsUpTo(n) ==
    IF n = 0 THEN {<<>>}
    ELSE LET shorter == StringsUpTo(n - 1) IN
         shorter \cup {Append(x, c) : x \in shorter, c \in Chars}

\* String.prototype.trimEnd
RECURSIVE trimEnd(_)
trimEnd(str) ==
    IF str = <<>> THEN str
    ELSE IF str[Len(str)] \in Whitespace THEN trimEnd(SubSeq(str, 1, Len(str) - 1))
    ELSE str

\* String.prototype.slice(start), start >= 0
slice(str, start) == SubSeq(str, start + 1, Len(str))

\* --------------------------------------------------- the partial replies
NoReply == [chunks |-> <<>>, payloads |-> <<>>, lastPartialText |-> <<>>]

\* onPartialReply on one payload text: the new lastPartialText and the contents
\* handed to sendEvent as chat.chunk (none or one).
onPartialReplyWholeText(lastPartialText, payloadText) ==
    LET text == trimEnd(payloadText) IN
    IF text = <<>> \/ text = lastPartialText
    THEN [chunk |-> <<>>, lastPartialText |-> lastPartialText]
    ELSE [chunk |-> <<text>>, lastPartialText |-> text]

onPartialReplyText(lastPartialText, payloadText) ==
    LET text == trimEnd(payloadText) IN
    IF text = <<>> \/ text = lastPartialText
    THEN [chunk |-> <<>>, lastPartialText |-> lastPartialText]
    ELSE LET newContent == slice(text, Len(lastPartialText)) IN
         [chunk |-> IF newContent = <<>> THEN <<>> ELSE <<newContent>>,
          lastPartialText |-> text]

\* ------------------------------------------------------ the token accounting
\* The keys of the session store a turn looks up: sessionKey, else mainSessionKey.
StoreKeys == {"session", "main"}

NoEntry == [present |-> FALSE, totalTokens |-> Undefined,
            inputTokens |-> Undefined, outputTokens |-> Undefined]

Entries ==
    [present : {TRUE}, totalTokens : {Undefined} \cup 0..MaxTotal,
     inputTokens : {Undefined, 1}, outputTokens : {Undefined, 1}]

\* x ?? 0
orZero(x) == IF x = Undefined THEN 0 ELSE x

NoUsage == [lastCumulativeTokens |-> [k \in StoreKeys |-> Undefined], ends |-> <<>>]

\* The token block of handleHookAgent for the entry found under storeKey.
tokenCountRawDelta(last, storeKey, entry) ==
    LET cumulative == IF entry.totalTokens # Undefined THEN entry.totalTokens
                      ELSE orZero(entry.inputTokens) + orZero(entry.outputTokens)
        delta == cumulative - orZero(last[storeKey])
    IN
    [lastCumulativeTokens |-> IF cumulative > 0 THEN [last EXCEPT ![storeKey] = cumulative] ELSE last,
     cumulative |-> cumulative,
     tokenCount |-> delta]

tokenCountKeepsFirst(last, storeKey, entry) ==
    LET cumulative == IF entry.totalTokens # Undefined THEN entry.totalTokens
                      ELSE orZero(entry.inputTokens) + orZero(entry.outputTokens)
        prev == orZero(last[storeKey])
        delta == cumulative - prev
    IN
    [lastCumulativeTokens |-> IF cumulative > 0 /\ last[storeKey] = Undefined
                              THEN [last EXCEPT ![storeKey] = cumulative] ELSE last,
     cumulative |-> cumulative,
     tokenCount |-> IF delta > 0 THEN delta ELSE Undefined]

tokenCount(last, storeKey, entry) ==
    LET cumulative == IF entry.totalTokens # Undefined THEN entry.totalTokens
                      ELSE orZero(entry.inputTokens) + orZero(entry.outputTokens)
        prev == orZero(last[storeKey])
        delta == cumulative - prev
    IN
    [lastCumulativeTokens |-> IF cumulative > 0 THEN [last EXCEPT ![storeKey] = cumulative] ELSE last,
     cumulative |-> cumulative,
     tokenCount |-> IF delta > 0 THEN delta ELSE Undefined]

\* ------------------------------------------------------- the approval lists
\* Tool names as before_tool_call reports them; toString is a name that a plain
\* object inherits from Object.prototype.
ToolNames == {"exec", "Read", "Bash", "toString"}

\* The entries an approval policy's tools list is made of.
ListNames == {"exec", "Read", "*", "Bash"}

RECURSIVE ListsUpTo(_)
ListsUpTo(n) ==
    IF n = 0 THEN {<<>>}
    ELSE LET shorter == ListsUpTo(n - 1) IN
         shorter \cup {Append(x, e) : x \in shorter, e \in ListNames}

\* Array.prototype.includes
includes(list, x) == \E k \in 1..Len(list) : list[k] = x

TOOL_APPROVAL_ALIASES == [exec |-> "Bash"]

\* TOOL_APPROVAL_ALIASES[toolName]: an own property, an inherited one (a
\* function, which no list of strings includes), or undefined.
aliasOf(toolName) ==
    IF toolName \in DOMAIN TOOL_APPROVAL_ALIASES THEN TOOL_APPROVAL_ALIASES[toolName]
    ELSE IF toolName = "toString" THEN "[inherited]"
    ELSE "undefined"

toolMatchesNoAlias(toolName, toolList) ==
    includes(toolList, "*") \/ includes(toolList, toolName)

toolMatchesApprovalList(toolName, toolList) ==
    IF includes(toolList, "*") THEN TRUE
    ELSE IF includes(toolList, toolName) THEN TRUE
    ELSE LET alias == aliasOf(toolName) IN
         IF alias # "undefined" /\ includes(toolList, alias) THEN TRUE
         ELSE FALSE

NoMatching == [toolName |-> "exec", toolList |-> <<>>, called |-> FALSE, result |-> FALSE]

\* ---------------------------------------------------------- the session keys
\* The characters of agent ids and backend session keys.
KeyChars == {"s", "S", ":"}

RECURSIVE KeysUpTo(_)
KeysUpTo(n) ==
    IF n = 0 THEN {<<>>}
    ELSE LET shorter == KeysUpTo(n - 1) IN
         shorter \cup {Append(x, c) : x \in shorter, c \in KeyChars}

\* String.prototype.toLowerCase
lower(c) == IF c = "S" THEN "s" ELSE c
toLowerCase(str) == [k \in 1..Len(str) |-> lower(str[k])]

\* String.prototype.split(':')
RECURSIVE split(_)
split(str) ==
    IF \A k \in 1..Len(str) : str[k] # ":" THEN <<str>>
    ELSE LET k == CHOOSE i \in 1..Len(str) :
                      str[i] = ":" /\ \A j \in 1..(i - 1) : str[j] # ":"
         IN <<SubSeq(str, 1, k - 1)>> \o split(SubSeq(str, k + 1, Len(str)))

\* Array.prototype.join(':')
RECURSIVE join(_)
join(parts) ==
    IF parts = <<>> THEN <<>>
    ELSE IF Len(parts) = 1 THEN parts[1]
    ELSE parts[1] \o <<":">> \o join(Tail(parts))

\* `agent:${agentId}:direct:${request.sessionKey}`.toLowerCase()
deriveSessionKey(agentId, backendKey) ==
    toLowerCase(<<"a", "g", "e", "n", "t", ":">> \o agentId
                \o <<":", "d", "i", "r", "e", "c", "t", ":">> \o backendKey)

\* parts.length >= 4 ? parts.slice(3).join(':') : ctx.sessionKey
recoverBackendSessionKey(sessionKey) ==
    LET parts == split(sessionKey) IN
    IF Len(parts) >= 4 THEN join(SubSeq(parts, 4, Len(parts))) ELSE sessionKey

\* result: "message" is { channel, messageId }, what a send that went out returns;
\* "ok" is { ok: true } and "failed" is { ok: false, error }.  failure says that
\* the socket was missing or not OPEN, or a send threw, where a frame was due.
NoOutbound ==
    [pc |-> "idle", sock |-> None, frames |-> 0, result |-> "none",
     op |-> "none", caption |-> FALSE, failure |-> FALSE]

NoInbound == [frames |-> 0, log |-> "none", rejections |-> 0, pongs |-> 0]

NoRouting == [pc |-> "none", agentId |-> <<>>, event |-> "none",
              backendKey |-> <<>>, sessionKey |-> <<>>,
              whimmySessionKey |-> <<>>, eventKey |-> <<>>]

\* ------------------------------------------------------------ config sync
\* The agents whose configurations are synced, and the hook.agent requests.
SyncAgents == {"a1", "a2"}
ReqIds == 1..MaxRequests

\* A skill entry is a record of optional fields; a field left out is Missing.
Skills == {"github", "slack"}
SkillFields == {"enabled", "env"}
Missing == "undefined"
NoSkillEntry == [f \in SkillFields |-> Missing]
SkillEntry(enabled, env) == [NoSkillEntry EXCEPT !["enabled"] = enabled, !["env"] = env]

\* agentConfig.skillEntries: skill name -> entry; a skill not named has no field.
NoSkillEntries == [k \in Skills |-> NoSkillEntry]
SkillEntries ==
    {NoSkillEntries,
     [NoSkillEntries EXCEPT !["github"] = SkillEntry("true", "X1")],
     [NoSkillEntries EXCEPT !["github"] = SkillEntry("true", Missing)],
     [NoSkillEntries EXCEPT !["slack"] = SkillEntry("false", Missing)]}

\* A system prompt is the sequence of its parts; '' and a prompt left out are <<>>.
Prompts == {<<>>, <<"p1">>}

\* The agentConfig of a hook.agent request (the allowlist `skills` is left out
\* of these requests).
SyncConfig(systemPrompt, skillEntries, enabled) ==
    [approvals |-> NoApprovals, askUserQuestion |-> [enabled |-> enabled],
     systemPrompt |-> systemPrompt, skillEntries |-> skillEntries, model |-> "m1"]

\* computeHash: SHA-256 of the six fields, taken to be free of collisions.
NoHash == <<>>
computeHash(agentConfig) ==
    <<agentConfig.model, agentConfig.systemPrompt, Missing, agentConfig.skillEntries,
      agentConfig.approvals, agentConfig.askUserQuestion>>

\* The persisted configuration: agents.list and skills.entries.
NoAgentEntry == [present |-> FALSE, model |-> "none", execAsk |-> "none", agentDir |-> FALSE]
NoConfigFile ==
    [list |-> [a \in SyncAgents |-> NoAgentEntry], entries |-> NoSkillEntries]

NoFile == <<"absent">>

\* { ...cfg.skills.entries[skillName], ...skillConfig }
mergeEntryReplaces(existing, skillConfig) == skillConfig

mergeEntry(existing, skillConfig) ==
    [f \in SkillFields |-> IF skillConfig[f] # Missing THEN skillConfig[f] ELSE existing[f]]

\* ensureWhimmyAgent between loadConfig and writeConfigFile: the configuration
\* loaded, with the agent's entry and the skill entries of agentConfig set.
syncedConfig(cfg, agentId, agentConfig) ==
    [list |-> [cfg.list EXCEPT ![agentId] =
                  [present |-> TRUE, model |-> agentConfig.model,
                   execAsk |-> IF agentConfig.approvals.enabled THEN "off" ELSE @.execAsk,
                   agentDir |-> TRUE]],
     entries |-> [k \in Skills |-> mergeEntry(cfg.entries[k], agentConfig.skillEntries[k])]]

\* The suffixes handleHookAgent appends to request.agentConfig.systemPrompt.
suffixes(isOrchestrator, agentConfig) ==
    (IF isOrchestrator THEN <<"delegation">> ELSE <<>>)
    \o (IF agentConfig.askUserQuestion.enabled THEN <<"askUserQuestion">> ELSE <<>>)

NoRequest ==
    [pc |-> "none", agentId |-> "none",
     agentConfig |-> SyncConfig(<<>>, NoSkillEntries, TRUE), cfg |-> NoConfigFile,
     isOrchestrator |-> FALSE, received |-> SyncConfig(<<>>, NoSkillEntries, TRUE),
     fast |-> FALSE, configWrites |-> 0, fileWrites |-> 0,
     written |-> NoFile]

Received == {r \in ReqIds : requests[r].pc # "none"}
nextReq == Cardinality(Received) + 1

\* ------------------------------------------------------------ memory files
\* The top-level memory files, in the order they are scanned, and the markdown
\* files of memory/ in the order readdirSync lists them.
MEMORY_FILES == <<"USER.md", "IDENTITY.md", "TOOLS.md", "HEARTBEAT.md">>
MemoryDirNames ==
    <<"memory/01.md", "memory/02.md", "memory/03.md", "memory/04.md", "memory/05.md",
      "memory/06.md", "memory/07.md", "memory/08.md", "memory/09.md", "memory/10.md",
      "memory/11.md", "memory/12.md">>
MemoryNames ==
    {MEMORY_FILES[k] : k \in 1..Len(MEMORY_FILES)}
    \cup {MemoryDirNames[k] : k \in 1..Len(MemoryDirNames)}

\* The files the agent writes during its turns, and what it writes: a file that
\* is absent, blank, or has one of three contents.
WrittenFiles == {"USER.md", "TOOLS.md"}
Contents == {"absent", "blank", "c1", "c2"}

\* Buffer.byteLength(content, 'utf-8')
byteLength(content) ==
    IF content = "c1" THEN 60000
    ELSE IF content = "c2" THEN 50000
    ELSE IF content = "note" THEN 1000
    ELSE IF content = "blank" THEN 1
    ELSE 0

\* createHash('sha256').update(content).digest('hex')
sha256(content) == <<"sha256", content>>

NoMemoryResult == [changed |-> {}, totalBytes |-> 0, tried |-> 0]

NoMemory ==
    [sent |-> {},
     result |-> NoMemoryResult,
     disk |-> [f \in MemoryNames |-> "absent"],
     memoryHashCache |-> [f \in MemoryNames |-> NoHash]]

\* The names collectChangedMemoryFiles passes to tryFile: the four top-level
\* names, then the first MEMORY_SUBDIR_MAX_FILES markdown files of memory/.
memoryCandidates(disk) ==
    LET entries == SelectSeq(MemoryDirNames, LAMBDA f : disk[f] # "absent")
        n == IF Len(entries) < MEMORY_SUBDIR_MAX_FILES THEN Len(entries)
             ELSE MEMORY_SUBDIR_MAX_FILES
    IN MEMORY_FILES \o SubSeq(entries, 1, n)

\* tryFile: acc is <<changed, totalBytes, memoryHashCache>> so far.
tryFileIgnoresCache(disk, filename, acc) ==
    LET content == disk[filename]
        bytes == byteLength(content)
    IN
    IF content \in {"absent", "blank"} THEN acc
    ELSE IF acc.totalBytes + bytes > MEMORY_MAX_TOTAL_BYTES THEN acc
    ELSE [changed |-> acc.changed \cup {filename},
          totalBytes |-> acc.totalBytes + bytes,
          memoryHashCache |-> [acc.memoryHashCache EXCEPT ![filename] = sha256(content)]]

tryFile(disk, filename, acc) ==
    LET content == disk[filename]
        bytes == byteLength(content)
    IN
    IF content \in {"absent", "blank"} THEN acc
    ELSE IF acc.totalBytes + bytes > MEMORY_MAX_TOTAL_BYTES THEN acc
    ELSE IF acc.memoryHashCache[filename] = sha256(content) THEN acc
    ELSE [changed |-> acc.changed \cup {filename},
          totalBytes |-> acc.totalBytes + bytes,
          memoryHashCache |-> [acc.memoryHashCache EXCEPT ![filename] = sha256(content)]]

RECURSIVE tryFiles(_, _, _, _)
tryFiles(disk, names, k, acc) ==
    IF k > Len(names) THEN acc
    ELSE tryFiles(disk, names, k + 1, tryFile(disk, names[k], acc))

\* The bytes of the files of a set, as they are on disk.
RECURSIVE totalByteLength(_, _)
totalByteLength(disk, files) ==
    IF files = {} THEN 0
    ELSE LET f == CHOOSE g \in files : TRUE
         IN byteLength(disk[f]) + totalByteLength(disk, files \ {f})

collectChangedMemoryFiles(disk, cache) ==
    LET names == memoryCandidates(disk)
        acc == tryFiles(disk, names, 1,
                        [changed |-> {}, totalBytes |-> 0, memoryHashCache |-> cache])
    IN [changed |-> acc.changed, totalBytes |-> acc.totalBytes, tried |-> Len(names),
        memoryHashCache |-> acc.memoryHashCache]

InitMore ==
    /\ inbound = NoInbound
    /\ outbound = NoOutbound
    /\ hashCache = [a \in SyncAgents |-> NoHash]
    /\ configFile = NoConfigFile
    /\ soul = [a \in SyncAgents |-> NoFile]
    /\ cached = [a \in SyncAgents |-> None]
    /\ requests = [r \in ReqIds |-> NoRequest]
    /\ memory = NoMemory

InitPlugin ==
    /\ InitMore
    /\ activeConnections = [a \in Accounts |-> None]
    /\ sockets = [s \in SockIds |-> NoSocket]
    /\ status = [a \in Accounts |-> defaultRuntime]
    /\ calls = [c \in CallIds |-> NoCall]
    /\ pendingResume = None
    /\ approvalWaiters = {}
    /\ askUserQuestionWaiters = {}
    /\ timers = {}
    /\ corr = [i \in CorrIds |-> NoCorr]
    /\ turns = [t \in TurnIds |-> NoTurn]
    /\ agentConfigCache = [a \in Agents |-> NoConfig]
    /\ sessionApprovals = [a \in Agents |-> {}]
    /\ broadcasts = <<>>
    /\ hookLog = "none"

Init ==
    /\ InitPlugin
    /\ reply = NoReply
    /\ usage = NoUsage
    /\ matching = NoMatching
    /\ routing = NoRouting

\* ------------------------------------------------ gateway: startAccount
\* connectWebSocket up to its first await (or its early return).
connectWebSocketNoReuse(c, a, ab) ==
    /\ pendingResume = None
    /\ calls[c].pc = "idle"
    /\ nextSock <= MaxSockets
    /\ sockets' = [sockets EXCEPT ![nextSock] = NewSocket(a)]
    /\ calls' = [calls EXCEPT ![c] = [acct |-> a, pc |-> "connecting", sock |-> nextSock,
                                      aborted |-> ab, listener |-> FALSE]]
    /\ UNCHANGED <<activeConnections, status, pendingResume>>
    /\ UNCHANGED waitVars /\ UNCHANGED turns /\ UNCHANGED hookVars
    /\ UNCHANGED funcVars

connectWebSocket(c, a, ab) ==
    LET existing == activeConnections[a] IN
    /\ pendingResume = None
    /\ calls[c].pc = "idle"
    /\ IF existing # None /\ sockets[existing].readyState = "OPEN"
       THEN /\ status' = [status EXCEPT ![a] = [@ EXCEPT !.running = TRUE, !.lastError = "null"]]
            /\ calls' = [calls EXCEPT ![c] = [acct |-> a, pc |-> "connected", sock |-> existing,
                                              aborted |-> ab, listener |-> FALSE]]
            /\ pendingResume' = c
            /\ UNCHANGED <<activeConnections, sockets>>
       ELSE /\ nextSock <= MaxSockets
            /\ sockets' = [sockets EXCEPT ![nextSock] = NewSocket(a)]
            /\ calls' = [calls EXCEPT ![c] = [acct |-> a, pc |-> "connecting", sock |-> nextSock,
                                              aborted |-> ab, listener |-> FALSE]]
            /\ UNCHANGED <<activeConnections, status, pendingResume>>
    /\ UNCHANGED waitVars /\ UNCHANGED turns /\ UNCHANGED hookVars
    /\ UNCHANGED funcVars

\* The 'open' event of a connecting socket: connectWebSocket runs to its return.
SocketOpen(s) ==
    /\ pendingResume = None
    /\ sockets[s].readyState = "CONNECTING"
    /\ \E c \in CallIds :
        /\ calls[c].pc = "connecting" /\ calls[c].sock = s
        /\ LET a == sockets[s].acct
               opened == [sockets EXCEPT ![s].readyState = "OPEN"]
           IN
           /\ sockets' = [opened EXCEPT ![s].health =
                              IF sendEnvelope(opened, s) THEN @ + 1 ELSE @]
           /\ status' = [status EXCEPT ![a] = [@ EXCEPT !.running = TRUE,
                                                        !.lastStartAt = TRUE,
                                                        !.lastError = "null"]]
           /\ activeConnections' = [activeConnections EXCEPT ![a] = s]
           /\ calls' = [calls EXCEPT ![c].pc = "connected"]
           /\ pendingResume' = c
    /\ UNCHANGED waitVars /\ UNCHANGED turns /\ UNCHANGED hookVars
    /\ UNCHANGED funcVars

\* The 'error' event of a socket that never opened: connectWebSocket rejects.
SocketError(s) ==
    /\ pendingResume = None
    /\ sockets[s].readyState = "CONNECTING"
    /\ \E c \in CallIds :
        /\ calls[c].pc = "connecting" /\ calls[c].sock = s
        /\ calls' = [calls EXCEPT ![c].pc = "threw"]
    /\ sockets' = [sockets EXCEPT ![s].readyState = "CLOSED"]
    /\ UNCHANGED <<activeConnections, status, pendingResume>>
    /\ UNCHANGED waitVars /\ UNCHANGED turns /\ UNCHANGED hookVars
    /\ UNCHANGED funcVars

\* startAccount after connectWebSocket returned: the abort signal is wired up.
startAccountResumeNoAbortCheck(c) ==
    /\ pendingResume = c
    /\ calls' = [calls EXCEPT ![c] = [@ EXCEPT !.pc = "keepalive", !.listener = TRUE]]
    /\ pendingResume' = None
    /\ UNCHANGED <<sockets, activeConnections, status>>
    /\ UNCHANGED waitVars /\ UNCHANGED turns /\ UNCHANGED hookVars
    /\ UNCHANGED funcVars

startAccountResume(c) ==
    /\ pendingResume = c
    /\ IF calls[c].aborted
       THEN LET r == stopFn(calls[c].sock, sockets, activeConnections, status) IN
            /\ sockets' = r.sockets
            /\ activeConnections' = r.reg
            /\ status' = r.status
            /\ calls' = [calls EXCEPT ![c].pc = "threw"]
       ELSE /\ calls' = [calls EXCEPT ![c] = [@ EXCEPT !.pc = "keepalive", !.listener = TRUE]]
            /\ UNCHANGED <<sockets, activeConnections, status>>
    /\ pendingResume' = None
    /\ UNCHANGED waitVars /\ UNCHANGED turns /\ UNCHANGED hookVars
    /\ UNCHANGED funcVars

\* The abort signal of call c trips; the listener, if added, is the stop function.
Abort(c) ==
    /\ pendingResume = None
    /\ calls[c].pc \in {"connecting", "keepalive", "returned"}
    /\ ~calls[c].aborted
    /\ IF calls[c].listener
       THEN LET r == stopFn(calls[c].sock, sockets, activeConnections, status) IN
            /\ sockets' = r.sockets
            /\ activeConnections' = r.reg
            /\ status' = r.status
       ELSE UNCHANGED <<sockets, activeConnections, status>>
    /\ calls' = [calls EXCEPT ![c].aborted = TRUE]
    /\ UNCHANGED pendingResume
    /\ UNCHANGED waitVars /\ UNCHANGED turns /\ UNCHANGED hookVars
    /\ UNCHANGED funcVars

\* The framework calls the stop() that startAccount returned.
Stop(c) ==
    /\ pendingResume = None
    /\ calls[c].pc = "returned"
    /\ LET r == stopFn(calls[c].sock, sockets, activeConnections, status) IN
       /\ sockets' = r.sockets
       /\ activeConnections' = r.reg
       /\ status' = r.status
    /\ UNCHANGED <<calls, pendingResume>>
    /\ UNCHANGED waitVars /\ UNCHANGED turns /\ UNCHANGED hookVars
    /\ UNCHANGED funcVars

\* The 'close' event of a socket that had opened: the close handler, and the
\* keep-alive promise of every startAccount call waiting on this socket.
closeHandlerKeepsRecord(s, reason) ==
    LET a == sockets[s].acct IN
    IF sockets[s].stopped
    THEN UNCHANGED <<activeConnections, status>>
    ELSE /\ UNCHANGED activeConnections
         /\ status' = IF reason # "replaced"
                      THEN [status EXCEPT ![a] = [@ EXCEPT !.running = FALSE,
                                                           !.lastError = "Disconnected"]]
                      ELSE status

closeHandler(s, reason) ==
    LET a == sockets[s].acct IN
    IF sockets[s].stopped
    THEN UNCHANGED <<activeConnections, status>>
    ELSE /\ activeConnections' = [activeConnections EXCEPT ![a] = None]
         /\ status' = IF reason # "replaced"
                      THEN [status EXCEPT ![a] = [@ EXCEPT !.running = FALSE,
                                                           !.lastError = "Disconnected"]]
                      ELSE status

SocketClose(s, reason) ==
    /\ pendingResume = None
    /\ sockets[s].readyState \in {"OPEN", "CLOSING"}
    /\ sockets' = [sockets EXCEPT ![s].readyState = "CLOSED"]
    /\ closeHandler(s, reason)
    /\ calls' = [c \in CallIds |->
                    IF calls[c].pc = "keepalive" /\ calls[c].sock = s
                    THEN [calls[c] EXCEPT !.pc = "returned"]
                    ELSE calls[c]]
    /\ UNCHANGED pendingResume
    /\ UNCHANGED waitVars /\ UNCHANGED turns /\ UNCHANGED hookVars
    /\ UNCHANGED funcVars

\* ------------------------------------------- the socket's message handler
\* ws.on('message', async ...): the listener runs once per frame the socket
\* delivers; nothing makes a frame wait for the handler of an earlier one.
InFlight(t) == turns[t].pc \notin {"none", "completed", "failed"}

messageListenerSerial(s) ==
    /\ sockets[s].readyState \in {"OPEN", "CLOSING"}
    /\ \A t \in TurnIds : turns[t].sock = s => ~InFlight(t)

messageListener(s) == sockets[s].readyState \in {"OPEN", "CLOSING"}

\* hook.agent: handleHookAgent up to its first await (ensureWhimmyAgent).
HookAgentWhenStopped(s, agentId, agentConfig) ==
    /\ pendingResume = None
    /\ messageListener(s)
    /\ \E t \in TurnIds :
          /\ turns[t].pc = "none"
          /\ \A u \in TurnIds : u < t => turns[u].pc # "none"
          /\ turns' = [turns EXCEPT ![t] = [NoTurn EXCEPT !.pc = "sync", !.sock = s,
                                                         !.agentId = agentId]]
          /\ agentConfigCache' = [agentConfigCache EXCEPT ![agentId] = agentConfig]
    /\ UNCHANGED connVars /\ UNCHANGED waitVars
    /\ UNCHANGED <<sessionApprovals, broadcasts, hookLog>>
    /\ UNCHANGED funcVars

HookAgent(s, agentId, agentConfig) ==
    /\ pendingResume = None
    /\ messageListener(s)
    /\ IF sockets[s].stopped
       THEN UNCHANGED <<turns, agentConfigCache>>
       ELSE \E t \in TurnIds :
               /\ turns[t].pc = "none"
               /\ \A u \in TurnIds : u < t => turns[u].pc # "none"
               /\ turns' = [turns EXCEPT ![t] = [NoTurn EXCEPT !.pc = "sync", !.sock = s,
                                                              !.agentId = agentId]]
               /\ agentConfigCache' = [agentConfigCache EXCEPT ![agentId] = agentConfig]
    /\ UNCHANGED connVars /\ UNCHANGED waitVars
    /\ UNCHANGED <<sessionApprovals, broadcasts, hookLog>>
    /\ UNCHANGED funcVars

\* hook.agent after the turn before it has ended: the same handler; the record
\* of the ended turn is not kept.
HookAgentAfter(s, agentId, agentConfig) ==
    /\ pendingResume = None
    /\ messageListener(s)
    /\ IF sockets[s].stopped
       THEN UNCHANGED <<turns, agentConfigCache>>
       ELSE \E t \in TurnIds :
               /\ turns[t].pc \in {"completed", "failed"}
               /\ \A u \in TurnIds : turns[u].pc # "none"
               /\ turns' = [turns EXCEPT ![t] = [NoTurn EXCEPT !.pc = "sync", !.sock = s,
                                                              !.agentId = agentId]]
               /\ agentConfigCache' = [agentConfigCache EXCEPT ![agentId] = agentConfig]
    /\ UNCHANGED connVars /\ UNCHANGED waitVars
    /\ UNCHANGED <<sessionApprovals, broadcasts, hookLog>>
    /\ UNCHANGED funcVars

\* ensureWhimmyAgent settles; the context is built and recordInboundSession awaited.
\* A throw (of the sync or of the context building) reaches the handler's catch.
ensureWhimmyAgentDone(t, ok) ==
    /\ pendingResume = None
    /\ turns[t].pc = "sync"
    /\ turns' = IF ok
                THEN [turns EXCEPT ![t].pc = "record"]
                ELSE [turns EXCEPT ![t] = [@ EXCEPT !.pc = "failed",
                                                    !.sent = emit(sockets, t, <<DoneError>>)]]
    /\ UNCHANGED connVars /\ UNCHANGED waitVars /\ UNCHANGED hookVars
    /\ UNCHANGED funcVars

\* recordInboundSession settles; typing is sent and the dispatch engine is called.
recordInboundSessionDone(t, ok) ==
    /\ pendingResume = None
    /\ turns[t].pc = "record"
    /\ turns' = IF ok
                THEN [turns EXCEPT ![t] = [@ EXCEPT !.pc = "dispatching",
                                                    !.sent = emit(sockets, t, <<Typing>>)]]
                ELSE [turns EXCEPT ![t] = [@ EXCEPT !.pc = "failed",
                                                    !.sent = emit(sockets, t, <<DoneError>>)]]
    /\ UNCHANGED connVars /\ UNCHANGED waitVars /\ UNCHANGED hookVars
    /\ UNCHANGED funcVars

\* The engine calls onPartialReply; fresh says whether the text has grown.
onPartialReply(t, fresh) ==
    /\ pendingResume = None
    /\ turns[t].pc = "dispatching"
    /\ turns[t].chunks < MaxChunks
    /\ turns' = IF fresh
                THEN [turns EXCEPT ![t] = [@ EXCEPT !.chunks = @ + 1,
                                                    !.sent = emit(sockets, t, <<Chunk(turns[t].chunks + 1)>>)]]
                ELSE turns
    /\ UNCHANGED connVars /\ UNCHANGED waitVars /\ UNCHANGED hookVars
    /\ UNCHANGED funcVars

\* The engine calls deliver with one media url; a local path is uploaded first
\* when the account has a registered connection.
deliver(t, local) ==
    /\ pendingResume = None
    /\ turns[t].pc = "dispatching"
    /\ ~turns[t].uploading
    /\ turns[t].media < MaxMedia
    /\ LET connInfo == activeConnections[sockets[turns[t].sock].acct] # None IN
       turns' = IF connInfo /\ local
                THEN [turns EXCEPT ![t].uploading = TRUE]
                ELSE [turns EXCEPT ![t] = [@ EXCEPT !.media = @ + 1,
                                                    !.sent = emit(sockets, t, <<Media>>)]]
    /\ UNCHANGED connVars /\ UNCHANGED waitVars /\ UNCHANGED hookVars
    /\ UNCHANGED funcVars

\* uploadFile settles: the media event is sent, or the item is skipped.
uploadFileDone(t, ok) ==
    /\ pendingResume = None
    /\ turns[t].uploading
    /\ turns' = [turns EXCEPT ![t] = [@ EXCEPT !.uploading = FALSE,
                                               !.media = @ + 1,
                                               !.sent = IF ok THEN emit(sockets, t, <<Media>>) ELSE @]]
    /\ UNCHANGED connVars /\ UNCHANGED waitVars /\ UNCHANGED hookVars
    /\ UNCHANGED funcVars

\* dispatchReplyFromConfig settles (it returned or threw, after its deliveries):
\* memory sync, idle presence and chat.done follow without an await.
dispatchEndDoneFirst(t, threw, mem) ==
    /\ pendingResume = None
    /\ turns[t].pc = "dispatching"
    /\ ~turns[t].uploading
    /\ turns' = [turns EXCEPT ![t] = [@ EXCEPT !.pc = "completed",
                    !.sent = emit(sockets, t, <<Done, Idle>>)]]
    /\ UNCHANGED connVars /\ UNCHANGED waitVars /\ UNCHANGED hookVars
    /\ UNCHANGED funcVars

dispatchEndRethrows(t, threw, mem) ==
    /\ pendingResume = None
    /\ turns[t].pc = "dispatching"
    /\ ~turns[t].uploading
    /\ turns' = [turns EXCEPT ![t] = [@ EXCEPT !.pc = IF threw THEN "failed" ELSE "completed",
                    !.dispatchErr = threw,
                    !.sent = emit(sockets, t, (IF mem THEN <<MemorySync>> ELSE <<>>)
                                              \o <<Idle, Done>>
                                              \o (IF threw THEN <<DoneError>> ELSE <<>>))]]
    /\ UNCHANGED connVars /\ UNCHANGED waitVars /\ UNCHANGED hookVars
    /\ UNCHANGED funcVars

dispatchEnd(t, threw, mem) ==
    /\ pendingResume = None
    /\ turns[t].pc = "dispatching"
    /\ ~turns[t].uploading
    /\ turns' = [turns EXCEPT ![t] = [@ EXCEPT !.pc = "completed",
                    !.dispatchErr = threw,
                    !.sent = emit(sockets, t, (IF mem THEN <<MemorySync>> ELSE <<>>) \o <<Idle, Done>>)]]
    /\ UNCHANGED connVars /\ UNCHANGED waitVars /\ UNCHANGED hookVars
    /\ UNCHANGED funcVars

\* ------------------------------------------- before_tool_call interception
\* What the hook returned for the call that waited for correlation id i.
hookReturn(i, outcome, value) ==
    LET tool == corr[i].toolName IN
    IF corr[i].kind = "approval"
    THEN IF outcome = "proceed" THEN Proceeds(tool)
         ELSE IF outcome = "denied" THEN Blocked(tool, "User denied", tool, NoError)
         ELSE Blocked(tool, "Approval timed out for", tool, NoError)
    ELSE IF outcome = "answered" THEN WithAnswers(tool, value)
         ELSE Blocked(tool, "User did not respond", "none", TimeoutError(i))

\* The continuation of the hook awaiting correlation id i, once its promise settles.
hookResume(T, i, outcome, value) ==
    LET t == corr[i].turn IN
    [T EXCEPT ![t] = [@ EXCEPT !.pc = "dispatching", !.corrId = None,
                               !.ret = hookReturn(i, outcome, value)]]

\* requestApproval: the timer is armed, the waiter stored and
\* exec.approval.requested broadcast; the hook awaits the promise.
requestApproval(t, toolName, mode) ==
    /\ nextId <= MaxIds
    /\ timers' = timers \cup {nextId}
    /\ approvalWaiters' = approvalWaiters \cup {nextId}
    /\ corr' = [corr EXCEPT ![nextId] = [NoCorr EXCEPT !.kind = "approval", !.turn = t,
                                                       !.hook = "waiting",
                                                       !.toolName = toolName, !.mode = mode]]
    /\ broadcasts' = Append(broadcasts, Bcast("exec.approval.requested", nextId, toolName))
    /\ turns' = [turns EXCEPT ![t] = [@ EXCEPT !.pc = "hookWait", !.corrId = nextId]]
    /\ UNCHANGED <<askUserQuestionWaiters, sessionApprovals>>

\* askUserQuestion: the timer is armed, the waiter stored and ask_user_question
\* broadcast; the hook awaits the promise.
askUserQuestion(t, toolName) ==
    /\ nextId <= MaxIds
    /\ timers' = timers \cup {nextId}
    /\ askUserQuestionWaiters' = askUserQuestionWaiters \cup {nextId}
    /\ corr' = [corr EXCEPT ![nextId] = [NoCorr EXCEPT !.kind = "question", !.turn = t,
                                                       !.hook = "waiting",
                                                       !.toolName = toolName]]
    /\ broadcasts' = Append(broadcasts, Bcast("ask_user_question", nextId, toolName))
    /\ turns' = [turns EXCEPT ![t] = [@ EXCEPT !.pc = "hookWait", !.corrId = nextId]]
    /\ UNCHANGED <<approvalWaiters, sessionApprovals>>

\* The hook returns undefined without a broadcast: the call runs as it is.
notInterceptedStarts(t, toolName) ==
    /\ turns' = [turns EXCEPT ![t].ret = Proceeds(toolName)]
    /\ broadcasts' = Append(broadcasts, Bcast("tool.start", None, toolName))
    /\ UNCHANGED <<waitVars, sessionApprovals>>

notIntercepted(t, toolName) ==
    /\ turns' = [turns EXCEPT ![t].ret = Proceeds(toolName)]
    /\ UNCHANGED <<waitVars, sessionApprovals, broadcasts>>

\* The hook's default end: tool.start is broadcast and the call runs as it is.
toolStart(t, toolName) ==
    /\ turns' = [turns EXCEPT ![t].ret = Proceeds(toolName)]
    /\ broadcasts' = Append(broadcasts, Bcast("tool.start", None, toolName))
    /\ UNCHANGED <<waitVars, sessionApprovals>>

\* The before_tool_call hook of a tool call of turn t, up to its first await or
\* its return.  A turn's context always carries a session key.
beforeToolCallAsksAgain(t, toolName, questions) ==
    LET agentId == turns[t].agentId
        agentCfg == agentConfigCache[agentId]
        approvalCfg == agentCfg.approvals
    IN
    /\ pendingResume = None
    /\ turns[t].pc = "dispatching"
    /\ Len(broadcasts) < MaxBroadcasts
    /\ IF isQuestionTool(toolName)
       THEN IF ~agentCfg.askUserQuestion.enabled \/ questions = 0
            THEN notIntercepted(t, toolName)
            ELSE askUserQuestion(t, toolName)
       ELSE IF approvalCfg.enabled /\ toolMatchesApprovalList(toolName, approvalCfg.tools)
            THEN requestApproval(t, toolName, approvalCfg.mode)
            ELSE toolStart(t, toolName)
    /\ UNCHANGED connVars /\ UNCHANGED <<agentConfigCache, hookLog>> /\ UNCHANGED funcVars

beforeToolCallNoPolicyCheck(t, toolName, questions) ==
    LET agentId == turns[t].agentId
        agentCfg == agentConfigCache[agentId]
        approvalCfg == agentCfg.approvals
    IN
    /\ pendingResume = None
    /\ turns[t].pc = "dispatching"
    /\ Len(broadcasts) < MaxBroadcasts
    /\ IF isQuestionTool(toolName)
       THEN askUserQuestion(t, toolName)
       ELSE IF approvalCfg.enabled /\ toolMatchesApprovalList(toolName, approvalCfg.tools)
            THEN IF approvalCfg.mode = "session" /\ toolName \in sessionApprovals[agentId]
                 THEN toolStart(t, toolName)
                 ELSE requestApproval(t, toolName, approvalCfg.mode)
            ELSE toolStart(t, toolName)
    /\ UNCHANGED connVars /\ UNCHANGED <<agentConfigCache, hookLog>> /\ UNCHANGED funcVars

beforeToolCall(t, toolName, questions) ==
    LET agentId == turns[t].agentId
        agentCfg == agentConfigCache[agentId]
        approvalCfg == agentCfg.approvals
    IN
    /\ pendingResume = None
    /\ turns[t].pc = "dispatching"
    /\ Len(broadcasts) < MaxBroadcasts
    /\ IF isQuestionTool(toolName)
       THEN IF ~agentCfg.askUserQuestion.enabled \/ questions = 0
            THEN notIntercepted(t, toolName)
            ELSE askUserQuestion(t, toolName)
       ELSE IF approvalCfg.enabled /\ toolMatchesApprovalList(toolName, approvalCfg.tools)
            THEN IF approvalCfg.mode = "session" /\ toolName \in sessionApprovals[agentId]
                 THEN toolStart(t, toolName)
                 ELSE requestApproval(t, toolName, approvalCfg.mode)
            ELSE toolStart(t, toolName)
    /\ UNCHANGED connVars /\ UNCHANGED <<agentConfigCache, hookLog>> /\ UNCHANGED funcVars

\* The hook's continuation after an approval: in session mode the grant is
\* remembered; tool.start is broadcast and the call proceeds.
approvedForgets(i) ==
    LET agentId == turns[corr[i].turn].agentId IN
    /\ sessionApprovals' =
          IF corr[i].mode = "session"
          THEN [sessionApprovals EXCEPT ![agentId] = {corr[i].toolName}]
          ELSE sessionApprovals
    /\ broadcasts' = Append(broadcasts, Bcast("tool.start", None, corr[i].toolName))

approvedAnyMode(i) ==
    LET agentId == turns[corr[i].turn].agentId IN
    /\ sessionApprovals' = [sessionApprovals EXCEPT ![agentId] = @ \cup {corr[i].toolName}]
    /\ broadcasts' = Append(broadcasts, Bcast("tool.start", None, corr[i].toolName))

approved(i) ==
    LET agentId == turns[corr[i].turn].agentId IN
    /\ sessionApprovals' =
          IF corr[i].mode = "session"
          THEN [sessionApprovals EXCEPT ![agentId] = @ \cup {corr[i].toolName}]
          ELSE sessionApprovals
    /\ broadcasts' = Append(broadcasts, Bcast("tool.start", None, corr[i].toolName))

\* The waiter stored in a table: clearTimeout(timer); resolve(value); then the
\* continuation of the hook that awaited the promise.
waiterKeepsTimer(i, outcome, value) ==
    /\ UNCHANGED timers
    /\ corr' = [corr EXCEPT ![i] = [@ EXCEPT !.promise = settle(@, "resolved"),
                                             !.resolveRan = TRUE,
                                             !.hook = IF corr[i].promise = "pending" THEN outcome ELSE @]]
    /\ turns' = IF corr[i].promise = "pending" THEN hookResume(turns, i, outcome, value) ELSE turns
    /\ IF corr[i].promise = "pending" /\ outcome = "proceed"
       THEN approved(i)
       ELSE UNCHANGED <<sessionApprovals, broadcasts>>

waiter(i, outcome, value) ==
    /\ timers' = timers \ {i}
    /\ corr' = [corr EXCEPT ![i] = [@ EXCEPT !.promise = settle(@, "resolved"),
                                             !.resolveRan = TRUE,
                                             !.hook = IF corr[i].promise = "pending" THEN outcome ELSE @]]
    /\ turns' = IF corr[i].promise = "pending" THEN hookResume(turns, i, outcome, value) ELSE turns
    /\ IF corr[i].promise = "pending" /\ outcome = "proceed"
       THEN approved(i)
       ELSE UNCHANGED <<sessionApprovals, broadcasts>>

\* hook.approval: the waiter of the execution id, if any, is removed and called;
\* if there is none, a warning is logged.
handleHookApprovalNoWarning(s, i, isApproved) ==
    /\ pendingResume = None
    /\ messageListener(s)
    /\ IF sockets[s].stopped
       THEN UNCHANGED <<approvalWaiters, timers, corr, turns, sessionApprovals, broadcasts, hookLog>>
       ELSE IF i \in approvalWaiters
            THEN /\ approvalWaiters' = approvalWaiters \ {i}
                 /\ waiter(i, IF isApproved THEN "proceed" ELSE "denied", "none")
                 /\ hookLog' = "info"
            ELSE /\ hookLog' = "info"
                 /\ UNCHANGED <<approvalWaiters, timers, corr, turns, sessionApprovals, broadcasts>>
    /\ UNCHANGED connVars /\ UNCHANGED <<askUserQuestionWaiters, agentConfigCache>>
    /\ UNCHANGED funcVars

handleHookApproval(s, i, isApproved) ==
    /\ pendingResume = None
    /\ messageListener(s)
    /\ IF sockets[s].stopped
       THEN UNCHANGED <<approvalWaiters, timers, corr, turns, sessionApprovals, broadcasts, hookLog>>
       ELSE IF i \in approvalWaiters
            THEN /\ approvalWaiters' = approvalWaiters \ {i}
                 /\ waiter(i, IF isApproved THEN "proceed" ELSE "denied", "none")
                 /\ hookLog' = "info"
            ELSE /\ hookLog' = "warn"
                 /\ UNCHANGED <<approvalWaiters, timers, corr, turns, sessionApprovals, broadcasts>>
    /\ UNCHANGED connVars /\ UNCHANGED <<askUserQuestionWaiters, agentConfigCache>>
    /\ UNCHANGED funcVars

\* hook.ask_user_answer: the waiter of the question id, if any, is called and
\* removed; if there is none, a warning is logged.
handleHookAskUserAnswer(s, i, answers) ==
    /\ pendingResume = None
    /\ messageListener(s)
    /\ IF sockets[s].stopped
       THEN UNCHANGED <<askUserQuestionWaiters, timers, corr, turns, hookLog>>
       ELSE IF i \in askUserQuestionWaiters
            THEN /\ waiter(i, "answered", answers)
                 /\ askUserQuestionWaiters' = askUserQuestionWaiters \ {i}
                 /\ hookLog' = "info"
            ELSE /\ hookLog' = "warn"
                 /\ UNCHANGED <<askUserQuestionWaiters, timers, corr, turns>>
    /\ UNCHANGED connVars /\ UNCHANGED <<approvalWaiters, agentConfigCache, sessionApprovals, broadcasts>>
    /\ UNCHANGED funcVars

\* The timeout timer of a waiter fires: the promise is rejected with an error
\* naming the id; the hook's catch blocks the tool call.
timeoutFiresProceeds(i) ==
    /\ timers' = timers \ {i}
    /\ corr' = [corr EXCEPT ![i] = [@ EXCEPT !.promise = settle(@, "rejected"),
                                             !.timeoutRan = TRUE,
                                             !.error = TimeoutError(i),
                                             !.hook = IF corr[i].promise = "pending" THEN "timedOut" ELSE @]]
    /\ turns' = IF corr[i].promise = "pending"
                THEN [turns EXCEPT ![corr[i].turn] =
                         [@ EXCEPT !.pc = "dispatching", !.corrId = None,
                                   !.ret = Proceeds(corr[i].toolName)]]
                ELSE turns

timeoutFiresAnonymous(i) ==
    /\ timers' = timers \ {i}
    /\ corr' = [corr EXCEPT ![i] = [@ EXCEPT !.promise = settle(@, "rejected"),
                                             !.timeoutRan = TRUE,
                                             !.error = [TimeoutError(i) EXCEPT !.id = None],
                                             !.hook = IF corr[i].promise = "pending" THEN "timedOut" ELSE @]]
    /\ turns' = IF corr[i].promise = "pending"
                THEN [turns EXCEPT ![corr[i].turn] =
                         [@ EXCEPT !.pc = "dispatching", !.corrId = None,
                                   !.ret = Blocked(corr[i].toolName, "User did not respond",
                                                   "none", [TimeoutError(i) EXCEPT !.id = None])]]
                ELSE turns

timeoutFires(i) ==
    /\ timers' = timers \ {i}
    /\ corr' = [corr EXCEPT ![i] = [@ EXCEPT !.promise = settle(@, "rejected"),
                                             !.timeoutRan = TRUE,
                                             !.error = TimeoutError(i),
                                             !.hook = IF corr[i].promise = "pending" THEN "timedOut" ELSE @]]
    /\ turns' = IF corr[i].promise = "pending"
                THEN hookResume(turns, i, "timedOut", "none")
                ELSE turns

approvalTimerNoReject(i) ==
    /\ pendingResume = None
    /\ i \in timers /\ corr[i].kind = "approval"
    /\ approvalWaiters' = approvalWaiters \ {i}
    /\ timers' = timers \ {i}
    /\ UNCHANGED <<corr, turns>>
    /\ UNCHANGED connVars /\ UNCHANGED askUserQuestionWaiters /\ UNCHANGED hookVars
    /\ UNCHANGED funcVars

approvalTimer(i) ==
    /\ pendingResume = None
    /\ i \in timers /\ corr[i].kind = "approval"
    /\ approvalWaiters' = approvalWaiters \ {i}
    /\ timeoutFires(i)
    /\ UNCHANGED connVars /\ UNCHANGED askUserQuestionWaiters /\ UNCHANGED hookVars
    /\ UNCHANGED funcVars

questionTimer(i) ==
    /\ pendingResume = None
    /\ i \in timers /\ corr[i].kind = "question"
    /\ askUserQuestionWaiters' = askUserQuestionWaiters \ {i}
    /\ timeoutFires(i)
    /\ UNCHANGED connVars /\ UNCHANGED approvalWaiters /\ UNCHANGED hookVars
    /\ UNCHANGED funcVars

\* ------------------------------------------- config sync: the operations
\* handleHookAgent after ensureWhimmyAgent has returned, up to the await of
\* recordInboundSession: the suffixes are appended to the request's agentConfig,
\* the object the cache holds.
afterSync(R, r) ==
    [R EXCEPT ![r] = [@ EXCEPT !.pc = "recording",
                               !.agentConfig.systemPrompt =
                                   @ \o suffixes(R[r].isOrchestrator, R[r].agentConfig)]]

\* A hook.agent frame: handleHookAgent caches the configuration and calls
\* ensureWhimmyAgent, which returns on its fast path or runs to the await of
\* writeConfigFile.
handleHookAgentAlwaysSyncs(agentId, agentConfig, isOrchestrator) ==
    LET r == nextReq
        arrived == [requests EXCEPT ![r] =
                       [NoRequest EXCEPT !.agentId = agentId, !.isOrchestrator = isOrchestrator,
                                         !.received = agentConfig, !.agentConfig = agentConfig]]
    IN
    /\ r <= MaxRequests
    /\ cached' = [cached EXCEPT ![agentId] = r]
    /\ soul' = [soul EXCEPT ![agentId] = agentConfig.systemPrompt]
    /\ requests' = [arrived EXCEPT ![r] =
                       [@ EXCEPT !.pc = "writing",
                                 !.cfg = syncedConfig(configFile, agentId, agentConfig),
                                 !.configWrites = 1, !.fileWrites = 2,
                                 !.written = agentConfig.systemPrompt]]
    /\ UNCHANGED <<hashCache, configFile>>
    /\ UNCHANGED pluginVars /\ UNCHANGED <<reply, usage, matching, routing, inbound, outbound, memory>>

handleHookAgent(agentId, agentConfig, isOrchestrator) ==
    LET r == nextReq
        arrived == [requests EXCEPT ![r] =
                       [NoRequest EXCEPT !.agentId = agentId, !.isOrchestrator = isOrchestrator,
                                         !.received = agentConfig, !.agentConfig = agentConfig]]
    IN
    /\ r <= MaxRequests
    /\ cached' = [cached EXCEPT ![agentId] = r]
    /\ IF hashCache[agentId] = computeHash(agentConfig)
       THEN /\ requests' = afterSync([arrived EXCEPT ![r].fast = TRUE], r)
            /\ UNCHANGED soul
       ELSE /\ soul' = [soul EXCEPT ![agentId] = agentConfig.systemPrompt]
            /\ requests' = [arrived EXCEPT ![r] =
                               [@ EXCEPT !.pc = "writing",
                                         !.cfg = syncedConfig(configFile, agentId, agentConfig),
                                         !.configWrites = 1, !.fileWrites = 2,
                                         !.written = agentConfig.systemPrompt]]
    /\ UNCHANGED <<hashCache, configFile>>
    /\ UNCHANGED pluginVars /\ UNCHANGED <<reply, usage, matching, routing, inbound, outbound, memory>>

\* writeConfigFile settles: the configuration the sync built is the persisted
\* one and the hash is cached; or the write failed, ensureWhimmyAgent throws and
\* the message handler answers with its error chat.done.
writeConfigFileDone(r, ok) ==
    /\ requests[r].pc = "writing"
    /\ IF ok
       THEN /\ configFile' = requests[r].cfg
            /\ hashCache' = [hashCache EXCEPT ![requests[r].agentId] =
                                computeHash(requests[r].received)]
            /\ requests' = afterSync(requests, r)
       ELSE /\ requests' = [requests EXCEPT ![r].pc = "failed"]
            /\ UNCHANGED <<hashCache, configFile>>
    /\ UNCHANGED <<soul, cached>>
    /\ UNCHANGED pluginVars /\ UNCHANGED <<reply, usage, matching, routing, inbound, outbound, memory>>

\* recordInboundSession settles: typing is sent and the dispatch engine called.
startDispatch(r) ==
    /\ requests[r].pc = "recording"
    /\ requests' = [requests EXCEPT ![r].pc = "dispatching"]
    /\ UNCHANGED <<hashCache, configFile, soul, cached>>
    /\ UNCHANGED pluginVars /\ UNCHANGED <<reply, usage, matching, routing, inbound, outbound, memory>>

\* The dispatch settles: idle and chat.done follow.
endTurn(r) ==
    /\ requests[r].pc = "dispatching"
    /\ requests' = [requests EXCEPT ![r].pc = "completed"]
    /\ UNCHANGED <<hashCache, configFile, soul, cached>>
    /\ UNCHANGED pluginVars /\ UNCHANGED <<reply, usage, matching, routing, inbound, outbound, memory>>

\* ------------------------------------------------- outbound and actions
\* The sends of an operation on socket s: n frames are due; each is written
\* when the socket is OPEN and ws.send does not throw (sendEnvelope's result,
\* which the operations do not read).
sends(s, n, sendThrows) ==
    IF sendEvent(sockets, s) /\ ~sendThrows
    THEN [frames |-> n, failure |-> FALSE]
    ELSE [frames |-> 0, failure |-> TRUE]

Connected(a) ==
    activeConnections[a] # None /\ sockets[activeConnections[a]].readyState = "OPEN"

\* outbound.sendText
sendText(a, sendThrows) ==
    /\ pendingResume = None
    /\ outbound.pc = "idle"
    /\ outbound' =
         IF ~Connected(a)
         THEN [NoOutbound EXCEPT !.op = "sendText", !.failure = TRUE, !.result = "message"]
         ELSE LET w == sends(activeConnections[a], 1, sendThrows) IN
              [NoOutbound EXCEPT !.op = "sendText", !.sock = activeConnections[a],
                                 !.frames = w.frames, !.failure = w.failure,
                                 !.result = "message"]
    /\ UNCHANGED pluginVars /\ UNCHANGED <<reply, usage, matching, routing, inbound>> /\ UNCHANGED syncVars

MediaUrls == {"none", "local", "remote"}

\* outbound.sendMedia, up to its return or to the await of uploadFile.
sendMedia(a, mediaUrl, caption, sendThrows) ==
    /\ pendingResume = None
    /\ outbound.pc = "idle"
    /\ outbound' =
         IF ~Connected(a)
         THEN [NoOutbound EXCEPT !.op = "sendMedia", !.failure = TRUE, !.result = "message"]
         ELSE IF mediaUrl = "none"
         THEN [NoOutbound EXCEPT !.op = "sendMedia", !.result = "message"]
         ELSE IF mediaUrl = "local"
         THEN [NoOutbound EXCEPT !.op = "sendMedia", !.pc = "uploading",
                                 !.sock = activeConnections[a], !.caption = caption]
         ELSE LET w == sends(activeConnections[a], IF caption THEN 2 ELSE 1, sendThrows) IN
              [NoOutbound EXCEPT !.op = "sendMedia", !.sock = activeConnections[a],
                                 !.frames = w.frames, !.failure = w.failure,
                                 !.result = "message"]
    /\ UNCHANGED pluginVars /\ UNCHANGED <<reply, usage, matching, routing, inbound>> /\ UNCHANGED syncVars

Actions == {"send", "sendAttachment", "react", "edit", "unsend", "other"}

\* actions.handleAction, up to its return or to the await of uploadFile;
\* complete says that the parameters the action needs are there.
handleAction(a, action, complete, local, caption, sendThrows) ==
    /\ pendingResume = None
    /\ outbound.pc = "idle"
    /\ outbound' =
         IF ~Connected(a)
         THEN [NoOutbound EXCEPT !.op = action, !.failure = TRUE, !.result = "failed"]
         ELSE IF action = "other" \/ (~complete /\ ~(action = "sendAttachment" /\ local))
         THEN [NoOutbound EXCEPT !.op = action, !.result = "failed"]
         ELSE IF action = "sendAttachment" /\ local
         THEN [NoOutbound EXCEPT !.op = action, !.pc = "uploading",
                                 !.sock = activeConnections[a], !.caption = caption]
         ELSE LET n == IF action = "sendAttachment" /\ caption THEN 2 ELSE 1
                  w == sends(activeConnections[a], n, sendThrows)
              IN
              [NoOutbound EXCEPT !.op = action, !.sock = activeConnections[a],
                                 !.frames = w.frames, !.failure = w.failure,
                                 !.result = "ok"]
    /\ UNCHANGED pluginVars /\ UNCHANGED <<reply, usage, matching, routing, inbound>> /\ UNCHANGED syncVars

\* uploadFile settles for the operation that awaits it: the events are sent on
\* the socket read before the await.
outboundUploadDone(ok, sendThrows) ==
    /\ pendingResume = None
    /\ outbound.pc = "uploading"
    /\ outbound' =
         IF ~ok
         THEN [outbound EXCEPT !.pc = "idle",
                               !.result = IF outbound.op = "sendMedia" THEN "message" ELSE "failed"]
         ELSE LET w == sends(outbound.sock, IF outbound.caption THEN 2 ELSE 1, sendThrows) IN
              [outbound EXCEPT !.pc = "idle", !.frames = w.frames, !.failure = w.failure,
                               !.result = IF outbound.op = "sendMedia" THEN "message" ELSE "ok"]
    /\ UNCHANGED pluginVars /\ UNCHANGED <<reply, usage, matching, routing, inbound>> /\ UNCHANGED syncVars

\* ------------------------------------------------------ malformed frames
\* The frames the message handler has no use for: text that is not JSON; JSON
\* without a type (a number, a string, an array, {}); the JSON value null; a
\* type no case names; and a known type whose payload is left out.
FrameKinds ==
    {"null", "notJson", "noType", "unknownType",
     "hook.agent", "hook.approval", "hook.ask_user_answer", "tool.result"}

\* Where the handler's run of such a frame ends: the catch of JSON.parse, the
\* default arm, the catch around handleHookApproval; or a TypeError that no
\* catch takes (env.type of null; request.sessionKey inside the catch of
\* hook.agent; request.questionId and result.callId outside any try), with
\* which the promise of the async listener rejects.
frameOutcome(kind) ==
    IF kind = "notJson" THEN [log |-> "debug", throws |-> FALSE]
    ELSE IF kind \in {"noType", "unknownType"} THEN [log |-> "debug", throws |-> FALSE]
    ELSE IF kind = "hook.approval" THEN [log |-> "error", throws |-> FALSE]
    ELSE IF kind = "hook.agent" THEN [log |-> "error", throws |-> TRUE]
    ELSE [log |-> "none", throws |-> TRUE]

\* The message handler of socket s runs for a malformed frame.
malformedFrame(s, kind) ==
    /\ pendingResume = None
    /\ messageListener(s)
    /\ inbound.frames < MaxFrames
    /\ inbound' = IF sockets[s].stopped
                  THEN [inbound EXCEPT !.frames = @ + 1]
                  ELSE [frames |-> inbound.frames + 1,
                        log |-> frameOutcome(kind).log,
                        rejections |-> IF frameOutcome(kind).throws THEN inbound.rejections + 1
                                       ELSE inbound.rejections,
                        pongs |-> inbound.pongs]
    /\ UNCHANGED pluginVars /\ UNCHANGED <<reply, usage, matching, routing, outbound>> /\ UNCHANGED syncVars

\* The message handler of socket s runs for a ping frame: a pong is written.
ping(s) ==
    /\ pendingResume = None
    /\ messageListener(s)
    /\ inbound.frames < MaxFrames
    /\ inbound' = IF sockets[s].stopped
                  THEN [inbound EXCEPT !.frames = @ + 1]
                  ELSE [inbound EXCEPT !.frames = @ + 1,
                                       !.pongs = IF sendEnvelope(sockets, s) THEN @ + 1 ELSE @]
    /\ UNCHANGED pluginVars /\ UNCHANGED <<reply, usage, matching, routing, outbound>> /\ UNCHANGED syncVars

\* ------------------------------------------------- memory sync: operations
\* The agent writes one of its top-level memory files.
writeMemoryFile(filename, content) ==
    /\ memory.disk[filename] # content
    /\ memory' = [memory EXCEPT !.disk[filename] = content]
    /\ UNCHANGED pluginVars
    /\ UNCHANGED <<reply, usage, matching, routing, inbound, outbound>>
    /\ UNCHANGED <<hashCache, configFile, soul, cached, requests>>

\* The agent adds a note to memory/, which holds fewer than max of them.
writeMemoryNote(max) ==
    LET k == Cardinality({j \in 1..Len(MemoryDirNames) : memory.disk[MemoryDirNames[j]] # "absent"})
    IN
    /\ k < max /\ k < Len(MemoryDirNames)
    /\ memory' = [memory EXCEPT !.disk[MemoryDirNames[k + 1]] = "note"]
    /\ UNCHANGED pluginVars
    /\ UNCHANGED <<reply, usage, matching, routing, inbound, outbound>>
    /\ UNCHANGED <<hashCache, configFile, soul, cached, requests>>

\* One call of collectChangedMemoryFiles.
collectMemory ==
    LET r == collectChangedMemoryFiles(memory.disk, memory.memoryHashCache) IN
    /\ memory' = [memory EXCEPT
                     !.memoryHashCache = r.memoryHashCache,
                     !.result = [changed |-> r.changed, totalBytes |-> r.totalBytes,
                                 tried |-> r.tried]]
    /\ UNCHANGED pluginVars
    /\ UNCHANGED <<reply, usage, matching, routing, inbound, outbound>>
    /\ UNCHANGED <<hashCache, configFile, soul, cached, requests>>

\* The memory sync at the end of a turn that arrived on socket s: the changed
\* files are collected and, if there are any, sent in one agent.memory_sync.
memorySync(s) ==
    LET r == collectChangedMemoryFiles(memory.disk, memory.memoryHashCache)
        delivered == r.changed # {} /\ sendEvent(sockets, s)
    IN
    /\ sockets[s].readyState \in {"OPEN", "CLOSING", "CLOSED"}
    /\ memory' = [memory EXCEPT
                     !.memoryHashCache = r.memoryHashCache,
                     !.result = [changed |-> r.changed, totalBytes |-> r.totalBytes,
                                 tried |-> r.tried],
                     !.sent = IF delivered
                              THEN @ \cup {<<f, sha256(memory.disk[f])>> : f \in r.changed}
                              ELSE @]
    /\ UNCHANGED pluginVars
    /\ UNCHANGED <<reply, usage, matching, routing, inbound, outbound>>
    /\ UNCHANGED <<hashCache, configFile, soul, cached, requests>>

\* ------------------------------------------------------ the specification
\* The gateway: startAccount calls of the set C, and the events of their sockets.
GatewayNext(C) ==
    \/ \E c \in C, a \in Started, ab \in BOOLEAN : connectWebSocket(c, a, ab)
    \/ \E s \in SockIds : SocketOpen(s)
    \/ \E s \in SockIds : SocketError(s)
    \/ \E c \in C : startAccountResume(c)
    \/ \E c \in C : Abort(c)
    \/ \E c \in C : Stop(c)
    \/ \E s \in SockIds, r \in CloseReasons : SocketClose(s, r)

\* The hook.agent frames a socket delivers and the turns they start; P is the
\* set of agent configurations the frames carry.
TurnNext(P) ==
    \/ \E s \in SockIds, a \in FirstAgents, cfg \in P : HookAgent(s, a, cfg)
    \/ \E t \in TurnIds, ok \in BOOLEAN : ensureWhimmyAgentDone(t, ok)
    \/ \E t \in TurnIds, ok \in BOOLEAN : recordInboundSessionDone(t, ok)
    \/ \E t \in TurnIds, threw \in BOOLEAN, mem \in BOOLEAN : dispatchEnd(t, threw, mem)

\* The tool calls of a turn, the frames that answer them and the waiters'
\* timers; T and A are the tool names and the answers they are drawn from.
HookNext(T, A) ==
    \/ \E t \in TurnIds, tool \in T, questions \in 0..1 : beforeToolCall(t, tool, questions)
    \/ \E s \in SockIds, i \in CorrIds, ap \in BOOLEAN : handleHookApproval(s, i, ap)
    \/ \E s \in SockIds, i \in CorrIds, ans \in A : handleHookAskUserAnswer(s, i, ans)
    \/ \E i \in CorrIds : approvalTimer(i)
    \/ \E i \in CorrIds : questionTimer(i)

\* The replies the dispatch engine streams during a turn.
StreamNext ==
    \/ \E t \in TurnIds, fresh \in BOOLEAN : onPartialReply(t, fresh)
    \/ \E t \in TurnIds, local \in BOOLEAN : deliver(t, local)
    \/ \E t \in TurnIds, ok \in BOOLEAN : uploadFileDone(t, ok)

\* An agent whose every tool call is intercepted: approvals of every tool, asked
\* each time, and questions forwarded.
AskAlways ==
    [approvals |-> [mode |-> "always", enabled |-> TRUE, tools |-> <<"*">>],
     askUserQuestion |-> [enabled |-> TRUE]]

\* The whole plugin, for an account that the framework starts once and an agent
\* whose tool calls are all intercepted.
Next ==
    \/ GatewayNext(TurnCalls)
    \/ TurnNext({AskAlways})
    \/ HookNext({"exec", "AskUserQuestion"}, {"answersA"})
    \/ StreamNext

Spec == Init /\ [][Next]_vars

\* An account started once and neither stopped nor aborted: its socket opens,
\* and may close.
ConnNext ==
    \/ \E c \in TurnCalls, a \in Started : connectWebSocket(c, a, FALSE)
    \/ \E s \in SockIds : SocketOpen(s)
    \/ \E c \in TurnCalls : startAccountResume(c)
    \/ \E s \in SockIds : SocketClose(s, "unknown")

\* The configurations of an agent whose approval policy changes between turns.
PolicyConfigs ==
    {[approvals |-> ap, askUserQuestion |-> [enabled |-> TRUE]] :
        ap \in {[mode |-> "session", enabled |-> TRUE, tools |-> <<"*">>],
                [mode |-> "always", enabled |-> TRUE, tools |-> <<"*">>],
                [mode |-> "session", enabled |-> TRUE, tools |-> <<"Bash">>]}}

\* Turn after turn of two agents on an account whose connection may close or be
\* stopped, each turn with its own approval policy.
ApprovalSpec ==
    Init /\ [][\/ ConnNext
               \/ \E c \in TurnCalls : Stop(c)
               \/ TurnNext(PolicyConfigs)
               \/ \E s \in SockIds, a \in Agents, cfg \in PolicyConfigs : HookAgentAfter(s, a, cfg)
               \/ \E t \in TurnIds, tool \in {"exec", "Read"} : beforeToolCall(t, tool, 0)
               \/ \E s \in SockIds, i \in CorrIds, ap \in BOOLEAN : handleHookApproval(s, i, ap)
               \/ \E i \in CorrIds : approvalTimer(i)]_vars

\* Tool-call interception: a turn of an agent with any configuration, making
\* any tool calls, on such an account; no replies are streamed.
HookSpec ==
    Init /\ [][ConnNext \/ TurnNext(AgentConfigs) \/ HookNext(HookTools, AnswerMaps)]_vars

\* The inbound loop of a started account: malformed frames among the frames of
\* a turn and of its approvals.
FrameNext == \E s \in SockIds, kind \in FrameKinds : malformedFrame(s, kind)

FrameSpec ==
    Init /\ [][ConnNext \/ TurnNext({AskAlways})
                \/ HookNext({"exec", "AskUserQuestion"}, {"answersA"}) \/ FrameNext]_vars

\* A connection that is stopped, aborted or closed among the frames of a turn,
\* of its approvals and questions, malformed frames and pings.
StopSpec ==
    Init /\ [][\/ GatewayNext(TurnCalls)
               \/ TurnNext({AskAlways})
               \/ HookNext({"exec", "AskUserQuestion"}, {"answersA"})
               \/ FrameNext
               \/ \E s \in SockIds : ping(s)]_vars

\* The operations the framework calls to send on an account's connection.
OutboundNext ==
    \/ \E a \in Started, sendThrows \in BOOLEAN : sendText(a, sendThrows)
    \/ \E a \in Started, mediaUrl \in MediaUrls, caption \in BOOLEAN, sendThrows \in BOOLEAN :
          sendMedia(a, mediaUrl, caption, sendThrows)
    \/ \E a \in Started, action \in Actions, complete \in BOOLEAN, local \in BOOLEAN,
          caption \in BOOLEAN, sendThrows \in BOOLEAN :
          handleAction(a, action, complete, local, caption, sendThrows)
    \/ \E ok \in BOOLEAN, sendThrows \in BOOLEAN : outboundUploadDone(ok, sendThrows)

\* An account's connection with its failures (the socket errors, closes, is
\* stopped or aborted), the turn of a hook.agent and the outbound operations.
TransportSpec ==
    Init /\ [][GatewayNext(TurnCalls) \/ TurnNext({AskAlways}) \/ OutboundNext]_vars

\* The turns of hook.agent requests as far as the configuration goes; A, P, S
\* and O are the agents, prompts, skill entries and orchestrator flags of the
\* requests, Q the values of askUserQuestion.enabled.
SyncNext(A, P, S, Q, O) ==
    \/ \E agentId \in A, systemPrompt \in P, skillEntries \in S, enabled \in Q,
          isOrchestrator \in O :
          handleHookAgent(agentId, SyncConfig(systemPrompt, skillEntries, enabled), isOrchestrator)
    \/ \E r \in ReqIds, ok \in BOOLEAN : writeConfigFileDone(r, ok)
    \/ \E r \in ReqIds : startDispatch(r)
    \/ \E r \in ReqIds : endTurn(r)

\* Requests of two agents that differ in their skill entries.
SyncSpec == Init /\ [][SyncNext(SyncAgents, {<<"p1">>}, SkillEntries, {TRUE}, {FALSE})]_vars

\* The memory files of an agent, written between the calls of
\* collectChangedMemoryFiles.
CollectSpec ==
    Init /\ [][\/ \E filename \in WrittenFiles, content \in Contents :
                    writeMemoryFile(filename, content)
               \/ writeMemoryNote(MaxDirFiles)
               \/ collectMemory]_vars

\* The memory files of an agent, written between the memory syncs of its turns,
\* on an account whose socket may close.
MemorySpec ==
    Init /\ [][\/ ConnNext
               \/ \E filename \in WrittenFiles, content \in Contents :
                    writeMemoryFile(filename, content)
               \/ writeMemoryNote(MaxNotes)
               \/ \E s \in SockIds : memorySync(s)]_vars

\* Requests that differ in whether the plugin handles approvals.
SyncApprovals == {NoApprovals, [mode |-> "session", enabled |-> TRUE, tools |-> <<"*">>]}

AskSpec ==
    Init /\ [][\/ \E agentId \in SyncAgents, approvals \in SyncApprovals :
                    handleHookAgent(agentId,
                                    [SyncConfig(<<"p1">>, NoSkillEntries, TRUE)
                                        EXCEPT !.approvals = approvals],
                                    FALSE)
               \/ \E r \in ReqIds, ok \in BOOLEAN : writeConfigFileDone(r, ok)
               \/ \E r \in ReqIds : startDispatch(r)
               \/ \E r \in ReqIds : endTurn(r)]_vars

\* Requests of one agent that differ in what is appended to the system prompt.
PromptSpec ==
    Init /\ [][SyncNext({"a1"}, Prompts, {NoSkillEntries}, BOOLEAN, BOOLEAN)]_vars

\* The connection registry alone, under overlapping and repeated startAccount calls.
GatewaySpec == Init /\ [][GatewayNext(CallIds)]_vars

\* Timers fire, and a continuation in the microtask queue runs.
FairSpec ==
    /\ Spec
    /\ WF_vars(\E c \in CallIds : startAccountResume(c))
    /\ WF_vars(\E i \in CorrIds : approvalTimer(i))
    /\ WF_vars(\E i \in CorrIds : questionTimer(i))

\* ------------------------------------------------- the functions, one by one
\* One dispatch of a turn: the engine calls onPartialReply with a text each time.
PartialReply(payloadText) ==
    /\ Len(reply.payloads) < MaxPartials
    /\ LET r == onPartialReplyText(reply.lastPartialText, payloadText) IN
       reply' = [chunks |-> Append(reply.chunks, r.chunk),
                 payloads |-> Append(reply.payloads, payloadText),
                 lastPartialText |-> r.lastPartialText]
    /\ UNCHANGED pluginVars /\ UNCHANGED moreVars /\ UNCHANGED <<usage, matching, routing>>

ChunkNext == \E payloadText \in StringsUpTo(MaxTextLen) : PartialReply(payloadText)

ChunkSpec == Init /\ [][ChunkNext]_vars

\* The end of a turn: the session store is read (readable says whether the read
\* and the parse succeed) and chat.done is built with the tokenCount found.
TurnEndTokens(readable, store) ==
    /\ Len(usage.ends) < MaxTurnEnds
    /\ LET storeKey == IF store["session"].present THEN "session" ELSE "main"
           entry == store[storeKey]
       IN
       IF readable /\ entry.present
       THEN LET r == tokenCount(usage.lastCumulativeTokens, storeKey, entry) IN
            usage' = [lastCumulativeTokens |-> r.lastCumulativeTokens,
                      ends |-> Append(usage.ends, [storeKey |-> storeKey,
                                                   cumulative |-> r.cumulative,
                                                   tokenCount |-> r.tokenCount])]
       ELSE usage' = [usage EXCEPT !.ends = Append(@, [storeKey |-> "none",
                                                      cumulative |-> Undefined,
                                                      tokenCount |-> Undefined])]
    /\ UNCHANGED pluginVars /\ UNCHANGED moreVars /\ UNCHANGED <<reply, matching, routing>>

TokenNext ==
    \E readable \in BOOLEAN, store \in [StoreKeys -> Entries \cup {NoEntry}] :
        TurnEndTokens(readable, store)

TokenSpec == Init /\ [][TokenNext]_vars

\* One call of toolMatchesApprovalList, on any tool name and any list.
MatchInit ==
    /\ InitPlugin
    /\ reply = NoReply
    /\ usage = NoUsage
    /\ matching \in [toolName : ToolNames, toolList : ListsUpTo(MaxListLen),
                     called : {FALSE}, result : {FALSE}]
    /\ routing = NoRouting

CallToolMatches ==
    /\ ~matching.called
    /\ matching' = [matching EXCEPT !.called = TRUE,
                                    !.result = toolMatchesApprovalList(matching.toolName,
                                                                       matching.toolList)]
    /\ UNCHANGED pluginVars /\ UNCHANGED moreVars /\ UNCHANGED <<reply, usage, routing>>

MatchSpec == MatchInit /\ [][CallToolMatches]_vars

\* One session key: a hook.agent request with any agent id and backend session
\* key, the key its turn derives, and the key a hook of that turn recovers.
\* Two accounts, each started once, with one turn and its tool hooks.
AccountCalls == {1, 2}

IsolationNext ==
    \/ \E c \in AccountCalls, a \in Accounts : connectWebSocket(c, a, FALSE)
    \/ \E s \in SockIds : SocketOpen(s)
    \/ \E c \in AccountCalls : startAccountResume(c)
    \/ \E s \in SockIds : SocketClose(s, "unknown")

IsolationSpec ==
    Init /\ [][IsolationNext \/ TurnNext({AskAlways})
                \/ HookNext({"exec", "AskUserQuestion"}, {"answersA"})]_vars

KeyInit ==
    /\ InitPlugin
    /\ reply = NoReply
    /\ usage = NoUsage
    /\ matching = NoMatching
    /\ routing \in [agentId : KeysUpTo(MaxKeyLen), backendKey : KeysUpTo(MaxKeyLen),
                    sessionKey : {<<>>}, whimmySessionKey : {<<>>}, pc : {"request"},
                    event : {"none"}, eventKey : {<<>>}]

DeriveKey ==
    /\ routing.pc = "request"
    /\ routing' = [routing EXCEPT !.pc = "derived",
                                  !.sessionKey = deriveSessionKey(routing.agentId,
                                                                  routing.backendKey)]
    /\ UNCHANGED pluginVars /\ UNCHANGED moreVars /\ UNCHANGED <<reply, usage, matching>>

RecoverKey ==
    /\ routing.pc = "derived"
    /\ routing' = [routing EXCEPT !.pc = "recovered",
                                  !.whimmySessionKey = recoverBackendSessionKey(routing.sessionKey)]
    /\ UNCHANGED pluginVars /\ UNCHANGED moreVars /\ UNCHANGED <<reply, usage, matching>>

\* The events of a turn and the session key each carries: request.sessionKey in
\* handleHookAgent, ctx.sessionKey in the tool lifecycle hooks, the recovered
\* key in the approval and question hooks.
TurnEvents == {"chat.chunk", "chat.media", "agent.memory_sync", "chat.done", "chat.presence"}
ToolEvents == {"tool.start", "tool.done", "tool.error"}
PromptEvents == {"ask_user_question", "exec.approval.requested"}

eventSessionKey(event) ==
    IF event \in TurnEvents THEN routing.backendKey
    ELSE IF event \in ToolEvents THEN routing.sessionKey
    ELSE routing.whimmySessionKey

EmitEvent(event) ==
    /\ routing.pc = "recovered"
    /\ routing' = [routing EXCEPT !.pc = "emitted", !.event = event,
                                  !.eventKey = eventSessionKey(event)]
    /\ UNCHANGED pluginVars /\ UNCHANGED moreVars /\ UNCHANGED <<reply, usage, matching>>

KeyNext ==
    \/ DeriveKey
    \/ RecoverKey
    \/ \E event \in TurnEvents \cup ToolEvents \cup PromptEvents : EmitEvent(event)

KeySpec == KeyInit /\ [][KeyNext]_vars

\* ================================================================ claims
Tables == approvalWaiters \cup askUserQuestionWaiters
TableOf(i) == IF corr[i].kind = "approval" THEN approvalWaiters ELSE askUserQuestionWaiters

\* C1: the promise of a correlation id is settled by the resolve or by the
\* timeout, never by both: once resolved, the timer is cancelled and the entry
\* removed; once timed out, the entry is removed and no resolve took effect;
\* while pending, the entry and the timer are both in place.
C1_SettledAtMostOnce ==
    \A i \in Issued :
        /\ ~(corr[i].resolveRan /\ corr[i].timeoutRan)
        /\ corr[i].promise = "resolved" =>
              corr[i].resolveRan /\ i \notin timers /\ i \notin Tables
        /\ corr[i].promise = "rejected" =>
              corr[i].timeoutRan /\ i \notin timers /\ i \notin Tables
        /\ corr[i].promise = "pending" =>
              i \in timers /\ i \in TableOf(i) /\ ~corr[i].resolveRan /\ ~corr[i].timeoutRan

C1_Witness ==
    \E i, j \in Issued : corr[i].promise = "resolved" /\ corr[j].promise = "rejected"

Live(s) == sockets[s].readyState \in {"CONNECTING", "OPEN"} /\ ~sockets[s].stopped

\* C2: each account has at most one live socket (CONNECTING or OPEN, not stopped).
C2_AtMostOneLiveSocket ==
    \A a \in Accounts : Cardinality({s \in SockIds : sockets[s].acct = a /\ Live(s)}) <= 1

HasDone(t) == \E k \in 1..Len(turns[t].sent) : turns[t].sent[k].event = "chat.done"

\* C3: a turn that has ended has had a chat.done written to its socket.
C3_TerminalEventDelivered ==
    \A t \in TurnIds : turns[t].pc \in {"completed", "failed"} => HasDone(t)

\* C4: an intercepted tool call that waits for its waiter eventually returns from
\* the hook, and its entry eventually leaves the waiter table.
C4_InterceptedCallReturns ==
    \A i \in CorrIds :
        (corr[i].hook = "waiting") ~> (corr[i].hook # "waiting" /\ i \notin Tables)

C4_Witness ==
    \E i \in Issued :
        /\ corr[i].hook = "timedOut" /\ i \notin Tables
        /\ turns[corr[i].turn].pc # "hookWait"
        /\ sockets[turns[corr[i].turn].sock].readyState = "CLOSED"

\* The frame that answers correlation id i, handled on socket s, resuming turn t.
AnswerResumes(s, i, t) ==
    /\ IF corr[i].kind = "approval"
       THEN handleHookApproval(s, i, TRUE)
       ELSE \E ans \in AnswerMaps : handleHookAskUserAnswer(s, i, ans)
    /\ turns'[t].pc = "dispatching"
    /\ corr'[i].promise = "resolved"

\* C5: while a turn waits for an approval or an answer and its socket is OPEN,
\* the handler of the answering frame can run at once, and when it runs for a
\* pending id it resolves the waiter and the turn resumes.
C5_AnswerNotQueuedBehindTurn ==
    /\ [](\A t \in TurnIds :
            turns[t].pc = "hookWait" /\ sockets[turns[t].sock].readyState = "OPEN"
            => ENABLED AnswerResumes(turns[t].sock, turns[t].corrId, t))
    /\ [][\A s \in SockIds, i \in CorrIds :
            (\/ \E ap \in BOOLEAN : handleHookApproval(s, i, ap) /\ i \in approvalWaiters
             \/ \E ans \in AnswerMaps :
                   handleHookAskUserAnswer(s, i, ans) /\ i \in askUserQuestionWaiters)
            /\ ~sockets[s].stopped
            => /\ corr'[i].promise = "resolved"
               /\ turns[corr[i].turn].pc = "hookWait"
               /\ turns'[corr[i].turn].pc = "dispatching"]_vars

C5_Witness ==
    \E i \in Issued : corr[i].promise = "resolved" /\ turns[corr[i].turn].pc = "completed"

Registered(a) == activeConnections[a] # None /\ sockets[activeConnections[a]].readyState = "OPEN"

\* C6: connect for an account whose registered socket is OPEN returns that
\* socket, creates no socket, sends no health frame and leaves the registry as it is.
C6_ConnectReusesOpenSocket ==
    [][\A c \in CallIds, a \in Accounts, ab \in BOOLEAN :
        connectWebSocket(c, a, ab) /\ Registered(a)
        => /\ calls'[c].sock = activeConnections[a]
           /\ calls'[c].pc = "connected"
           /\ sockets' = sockets
           /\ activeConnections' = activeConnections]_vars

C6_Witness ==
    \E c, d, e \in CallIds :
        /\ c # d /\ d # e /\ c # e
        /\ calls[c].sock # None
        /\ calls[c].sock = calls[d].sock /\ calls[d].sock = calls[e].sock
        /\ calls[c].pc = "keepalive" /\ calls[d].pc = "keepalive" /\ calls[e].pc = "keepalive"
        /\ sockets[calls[c].sock].health = 1
        /\ nextSock = 2

\* C7: the close of the registered socket, not stopped, removes the account's
\* record and reports running=false with a lastError unless the reason is
\* "replaced"; the registry never holds a socket that is not OPEN, so the next
\* connect opens a fresh socket.
C7_CloseDeregisters ==
    /\ [](\A a \in Accounts : activeConnections[a] # None => Registered(a))
    /\ [][\A s \in SockIds, r \in CloseReasons :
            SocketClose(s, r) /\ ~sockets[s].stopped /\ activeConnections[sockets[s].acct] = s
            => /\ activeConnections'[sockets[s].acct] = None
               /\ r # "replaced" => /\ ~status'[sockets[s].acct].running
                                    /\ status'[sockets[s].acct].lastError # "null"
               /\ r = "replaced" => status' = status]_vars

C7_Witness ==
    \E s, n \in SockIds, a \in Accounts :
        /\ sockets[s].readyState = "CLOSED" /\ ~sockets[s].stopped /\ sockets[s].health = 1
        /\ sockets[s].acct = a /\ sockets[n].acct = a
        /\ n > s /\ sockets[n].readyState = "OPEN" /\ activeConnections[a] = n
        /\ status[a].running

\* A step in which the stop function of socket s is called.
StopCalled(s) ==
    \E c \in CallIds :
        /\ calls[c].sock = s
        /\ \/ Stop(c)
           \/ Abort(c) /\ calls[c].listener
           \/ startAccountResume(c) /\ calls[c].aborted

\* C8: a stop call closes the socket with code 1000 if it is OPEN or CONNECTING,
\* else closes nothing, and removes the account's record; a stop call made in the
\* state a stop call left changes neither the registry nor the socket.
C8_StopIdempotent ==
    [][\A s \in SockIds :
        StopCalled(s)
        => /\ activeConnections'[sockets[s].acct] = None
           /\ sockets'[s].stopped
           /\ IF sockets[s].readyState \in {"CONNECTING", "OPEN"}
              THEN /\ sockets'[s].readyState = "CLOSING"
                   /\ sockets'[s].closeCode = NormalClosure
                   /\ sockets'[s].closeCalls = sockets[s].closeCalls + 1
              ELSE sockets' = [sockets EXCEPT ![s].stopped = TRUE]
           /\ sockets[s].stopped /\ activeConnections[sockets[s].acct] = None
              => sockets' = sockets /\ activeConnections' = activeConnections]_vars

C8_Witness ==
    \E c, d \in CallIds :
        /\ c # d /\ calls[c].sock = calls[d].sock
        /\ calls[c].aborted /\ calls[c].listener
        /\ calls[d].aborted /\ calls[d].listener
        /\ sockets[calls[c].sock].readyState = "CLOSING"
        /\ sockets[calls[c].sock].closeCalls = 1

\* C9: startAccount, resumed with its signal aborted, runs the stop function and
\* throws; otherwise it adds the stop function as the abort listener, and a later
\* abort has exactly the effect of the stop function.
C9_AbortIsStop ==
    [][\A c \in CallIds :
        LET s == calls[c].sock
            r == stopFn(s, sockets, activeConnections, status)
        IN
        /\ startAccountResume(c) /\ calls[c].aborted
           => /\ calls'[c].pc = "threw"
              /\ sockets'[s].stopped
              /\ sockets'[s].readyState \notin {"CONNECTING", "OPEN"}
              /\ activeConnections'[calls[c].acct] = None
              /\ ~status'[calls[c].acct].running
        /\ startAccountResume(c) /\ ~calls[c].aborted
           => calls'[c].pc = "keepalive" /\ calls'[c].listener
        /\ Abort(c) /\ calls[c].pc \in {"keepalive", "returned"}
           => /\ calls[c].listener
              /\ sockets' = r.sockets /\ activeConnections' = r.reg /\ status' = r.status]_vars

C9_Witness ==
    \E c, d \in CallIds :
        /\ calls[c].pc = "threw" /\ calls[c].aborted /\ sockets[calls[c].sock].closeCalls = 1
        /\ calls[d].pc = "keepalive" /\ calls[d].aborted /\ sockets[calls[d].sock].closeCalls = 1

IsStream(e) == e.event \in {"chat.chunk", "chat.media"}

RECURSIVE Emitted(_)
Emitted(k) ==
    IF k = 0 THEN <<>>
    ELSE Emitted(k - 1) \o (IF reply.chunks[k] = <<>> THEN <<>> ELSE reply.chunks[k][1])

IsPrefix(x, y) == Len(x) <= Len(y) /\ SubSeq(y, 1, Len(x)) = x

\* t is str without its trailing whitespace.
IsTrimmed(t, str) ==
    /\ IsPrefix(t, str)
    /\ t # <<>> => t[Len(t)] \notin Whitespace
    /\ \A k \in (Len(t) + 1)..Len(str) : str[k] \in Whitespace

Extending == \A k \in 2..Len(reply.payloads) : IsPrefix(reply.payloads[k - 1], reply.payloads[k])

\* C11: when every partial text extends the one before, a call emits at most one
\* chunk and never an empty one, a call whose trimmed text is that of the call
\* before emits nothing, and after each call the chunks emitted so far
\* concatenate to that call's text without its trailing whitespace (so each
\* chunk is the new suffix and nothing is emitted twice).
C11_ChunksAreNewSuffixes ==
    Extending =>
        \A k \in 1..Len(reply.payloads) :
            /\ reply.chunks[k] # <<>> => Len(reply.chunks[k]) = 1 /\ reply.chunks[k][1] # <<>>
            /\ IsTrimmed(Emitted(k), reply.payloads[k])
            /\ k > 1 /\ IsTrimmed(Emitted(k - 1), reply.payloads[k]) => reply.chunks[k] = <<>>

C11_Witness ==
    /\ reply.payloads = << <<"a">>, <<"a", " ">>, <<"a", " ", "a">> >>
    /\ reply.chunks = << <<(<<"a">>)>>, <<>>, <<(<<" ", "a">>)>> >>

\* The cumulative total recorded for the store key of end k before that end: the
\* total of the latest earlier end under that key that read a positive total.
RECURSIVE Recorded(_, _)
Recorded(k, j) ==
    IF j = 0 THEN 0
    ELSE IF usage.ends[j].storeKey = usage.ends[k].storeKey /\ usage.ends[j].cumulative > 0
         THEN usage.ends[j].cumulative
         ELSE Recorded(k, j - 1)

\* C12: the tokenCount of a turn's chat.done is the cumulative total read minus
\* the total recorded before for that session (0 if none) when that difference is
\* positive, and is omitted otherwise; it is never zero or negative.
C12_TokenCountIsPositiveDelta ==
    \A k \in 1..Len(usage.ends) :
        LET e == usage.ends[k]
            d == e.cumulative - Recorded(k, k - 1)
        IN
        /\ e.tokenCount # Undefined => e.tokenCount > 0
        /\ e.storeKey # "none" => e.tokenCount = (IF d > 0 THEN d ELSE Undefined)
        /\ e.storeKey = "none" => e.tokenCount = Undefined

C12_Witness ==
    /\ Len(usage.ends) = 3
    /\ \A k \in 1..3 : usage.ends[k].storeKey = "session"
    /\ usage.ends[1].cumulative = 1 /\ usage.ends[1].tokenCount = 1
    /\ usage.ends[2].cumulative = 1 /\ usage.ends[2].tokenCount = Undefined
    /\ usage.ends[3].cumulative = 3 /\ usage.ends[3].tokenCount = 2

Listed(x) == \E k \in 1..Len(matching.toolList) : matching.toolList[k] = x

\* C18: toolMatchesApprovalList is true exactly when the list holds "*", the tool
\* name, or Bash for the tool exec: a list with "*" matches every name, a list
\* with Bash matches exec, and a list with none of the three matches nothing.
C18_MatchIsWildcardNameOrAlias ==
    matching.called =>
        /\ matching.result <=>
              \/ Listed("*")
              \/ Listed(matching.toolName)
              \/ matching.toolName = "exec" /\ Listed("Bash")
        /\ Listed("*") => matching.result
        /\ matching.toolName = "exec" /\ Listed("Bash") => matching.result

C18_Witness ==
    /\ matching.called /\ matching.result
    /\ matching.toolName = "exec" /\ matching.toolList = <<"Bash">>

\* C19: the session key recovered from the derived key of an agent id and a
\* backend session key without a colon is that backend session key.
C19_RecoverInvertsDerive ==
    /\ routing.pc = "recovered"
    /\ \A k \in 1..Len(routing.backendKey) : routing.backendKey[k] # ":"
    => routing.whimmySessionKey = routing.backendKey

\* The tool call of turn t for which before_tool_call runs the approval check.
ApprovalChecked(t, toolName) ==
    LET approvalCfg == agentConfigCache[turns[t].agentId].approvals IN
    /\ ~isQuestionTool(toolName)
    /\ approvalCfg.enabled
    /\ toolMatchesApprovalList(toolName, approvalCfg.tools)

\* An approval of toolName for agentId was granted in session mode.
Granted(agentId, toolName) ==
    \E i \in Issued :
        /\ corr[i].kind = "approval" /\ corr[i].mode = "session"
        /\ corr[i].promise = "resolved" /\ corr[i].hook = "proceed"
        /\ corr[i].toolName = toolName /\ turns[corr[i].turn].agentId = agentId

\* The events of one kind handed to broadcastEvent.
Requests(B, event) == {k \in 1..Len(B) : B[k].event = event}

\* before_tool_call asks: one event is broadcast, with an id not issued before,
\* a waiter is stored for that id and the turn waits for it.
Asks(t, toolName, event) ==
    /\ Len(broadcasts') = Len(broadcasts) + 1
    /\ SubSeq(broadcasts', 1, Len(broadcasts)) = broadcasts
    /\ LET b == broadcasts'[Len(broadcasts')] IN
       /\ b.event = event /\ b.toolName = toolName
       /\ b.id \in CorrIds \ Issued
       /\ b.id \in (approvalWaiters' \cup askUserQuestionWaiters') \ Tables
       /\ turns'[t].pc = "hookWait" /\ turns'[t].corrId = b.id

Returned(i) == turns'[corr[i].turn].ret

C15_UnansweredQuestionBlocks ==
    /\ [][\A i \in CorrIds :
            questionTimer(i)
            => /\ corr'[i].promise = "rejected"
               /\ corr'[i].error.message = "AskUserQuestion timed out"
               /\ corr'[i].error.id = i
               /\ i \notin askUserQuestionWaiters'
               /\ Returned(i).block
               /\ Returned(i).blockReason = "User did not respond"
               /\ Returned(i).error = corr'[i].error
               /\ Returned(i).toolName = corr[i].toolName]_vars
    /\ [][\A i \in CorrIds :
            corr[i].kind = "question" /\ corr[i].promise = "pending"
            /\ turns'[corr[i].turn].pc # "hookWait" /\ ~Returned(i).block
            => /\ Returned(i).params = "withAnswers"
               /\ Returned(i).answers \in AnswerMaps]_vars

C15_Witness ==
    \E i \in Issued, t \in TurnIds :
        /\ corr[i].kind = "question" /\ corr[i].promise = "rejected"
        /\ corr[i].error = [message |-> "AskUserQuestion timed out", id |-> i]
        /\ turns[t].ret.block /\ turns[t].ret.blockReason = "User did not respond"
        /\ turns[t].ret.error.id = i
        /\ turns[t].pc = "completed"

\* C16: a hook.approval or hook.ask_user_answer whose id has no entry in its
\* waiter table (resolved, timed out or never issued) changes no waiter table,
\* settles no promise, resumes no hook and logs a warning; an id that has an
\* entry is accepted once: the entry is removed and the promise resolved.
C16_AnswerWithoutWaiterIsIgnored ==
    /\ [][\A s \in SockIds, i \in CorrIds :
            /\ ~sockets[s].stopped
            /\ \/ i \notin approvalWaiters /\ \E ap \in BOOLEAN : handleHookApproval(s, i, ap)
               \/ i \notin askUserQuestionWaiters
                  /\ \E ans \in AnswerMaps : handleHookAskUserAnswer(s, i, ans)
            => /\ approvalWaiters' = approvalWaiters
               /\ askUserQuestionWaiters' = askUserQuestionWaiters
               /\ timers' = timers /\ corr' = corr /\ turns' = turns
               /\ sessionApprovals' = sessionApprovals /\ broadcasts' = broadcasts
               /\ hookLog' = "warn"]_vars
    /\ [][\A s \in SockIds, i \in CorrIds :
            /\ ~sockets[s].stopped
            /\ \/ i \in approvalWaiters /\ \E ap \in BOOLEAN : handleHookApproval(s, i, ap)
               \/ i \in askUserQuestionWaiters
                  /\ \E ans \in AnswerMaps : handleHookAskUserAnswer(s, i, ans)
            => /\ i \notin approvalWaiters' \cup askUserQuestionWaiters'
               /\ corr[i].promise = "pending" /\ corr'[i].promise = "resolved"
               /\ hookLog' # "warn"]_vars

C16_Witness ==
    \E i, j \in Issued :
        /\ corr[i].kind = "approval" /\ corr[i].promise = "resolved"
        /\ corr[j].kind = "question" /\ corr[j].promise = "rejected"
        /\ Tables = {}
        /\ hookLog = "warn"

\* C17: a call of the question tool broadcasts nothing and stores no waiter when
\* the agent's question policy is disabled or the call has no questions;
\* otherwise it broadcasts exactly one ask_user_question with a fresh question
\* id and waits, and the answer for that id makes the hook return the call's
\* parameters with the answers received.
C17_QuestionForwardedAndAnswered ==
    /\ [][\A t \in TurnIds, toolName \in HookTools, questions \in 0..1 :
            beforeToolCall(t, toolName, questions) /\ isQuestionTool(toolName)
            => IF ~agentConfigCache[turns[t].agentId].askUserQuestion.enabled \/ questions = 0
               THEN /\ broadcasts' = broadcasts
                    /\ approvalWaiters' = approvalWaiters
                    /\ askUserQuestionWaiters' = askUserQuestionWaiters
                    /\ timers' = timers /\ corr' = corr
                    /\ turns'[t].pc = "dispatching"
                    /\ turns'[t].ret = Proceeds(toolName)
               ELSE /\ Asks(t, toolName, "ask_user_question")
                    /\ Requests(broadcasts', "ask_user_question")
                         = Requests(broadcasts, "ask_user_question") \cup {Len(broadcasts')}]_vars
    /\ [][\A s \in SockIds, i \in CorrIds, ans \in AnswerMaps :
            handleHookAskUserAnswer(s, i, ans) /\ i \in askUserQuestionWaiters
            /\ ~sockets[s].stopped
            => /\ turns'[corr[i].turn].pc = "dispatching"
               /\ Returned(i) = WithAnswers(corr[i].toolName, ans)
               /\ broadcasts' = broadcasts]_vars

C17_Witness ==
    \E i \in Issued, t \in TurnIds :
        /\ turns[t].agentId \in Agents
        /\ agentConfigCache[turns[t].agentId].askUserQuestion.enabled
        /\ corr[i].kind = "question" /\ corr[i].promise = "resolved"
        /\ corr[i].toolName = "ask_user_question"
        /\ turns[t].ret = WithAnswers("ask_user_question", "answersB")
        /\ Cardinality(Requests(broadcasts, "ask_user_question")) = 1

\* C20: a turn whose dispatch threw completes, and its terminal chat.done
\* carries the error's message.
C20_DispatchErrorInChatDone ==
    \A t \in TurnIds :
        turns[t].dispatchErr /\ HasDone(t)
        => /\ turns[t].pc = "completed"
           /\ \E k \in 1..Len(turns[t].sent) :
                 turns[t].sent[k].event = "chat.done" /\ turns[t].sent[k].err

\* C21: a malformed frame raises no error out of the message handler: it is
\* logged and dropped, changes no waiter table, registry or cache and sends
\* nothing, and the frames that arrive after it are still handled.
C21_MalformedFrameDropped ==
    [][\A s \in SockIds, kind \in FrameKinds :
         malformedFrame(s, kind) /\ ~sockets[s].stopped
         => /\ inbound'.rejections = inbound.rejections
            /\ inbound'.log \in {"error", "debug"}
            /\ UNCHANGED pluginVars
            /\ messageListener(s)']_vars

\* C22: a transport failure fails the operation it happens in: a connect whose
\* socket errors before it opens rejects and registers nothing; an outbound
\* operation or action whose socket is missing or not OPEN, or whose send
\* throws, does not return success; and a turn whose terminal event could not be
\* sent does not complete as if it had been.
C22_TransportFailureFailsOperation ==
    /\ [][\A s \in SockIds : SocketError(s)
            => /\ activeConnections' = activeConnections
               /\ \E c \in CallIds : calls[c].sock = s /\ calls'[c].pc = "threw"]_vars
    /\ [](outbound.pc = "idle" /\ outbound.failure => outbound.result = "failed")
    /\ [](\A t \in TurnIds : turns[t].pc = "completed" => HasDone(t))

\* The requests whose sync wrote the configuration and cached the hash.
Synced == {r \in ReqIds : ~requests[r].fast
                          /\ requests[r].pc \in {"completed", "dispatching", "recording"}}

\* C23: a request whose configuration has the hash cached from the agent's
\* previous successful sync writes no config file and no workspace file, leaves
\* the hash cache unchanged and goes on to dispatch and chat.done; a request
\* with another hash makes exactly one config write, which updates the cached
\* hash.
C23_UnchangedConfigSkipsSync ==
    /\ [](\A a \in SyncAgents :
            hashCache[a] # NoHash
            => \E r \in Synced : requests[r].agentId = a
                                 /\ computeHash(requests[r].received) = hashCache[a])
    /\ [][\A a \in SyncAgents, p \in Prompts, e \in SkillEntries, q \in BOOLEAN, o \in BOOLEAN :
            handleHookAgent(a, SyncConfig(p, e, q), o)
            => LET r == nextReq IN
               IF hashCache[a] = computeHash(SyncConfig(p, e, q))
               THEN /\ configFile' = configFile /\ soul' = soul /\ hashCache' = hashCache
                    /\ requests'[r].configWrites = 0 /\ requests'[r].fileWrites = 0
                    /\ requests'[r].pc = "recording"
               ELSE /\ requests'[r].configWrites = 1
                    /\ requests'[r].pc = "writing"
                    /\ configFile' = configFile /\ hashCache' = hashCache]_vars
    /\ [][\A r \in ReqIds :
            writeConfigFileDone(r, TRUE)
            => /\ hashCache'[requests[r].agentId] = computeHash(requests[r].received)
               /\ requests'[r].configWrites = 1]_vars
    /\ [][\A r \in ReqIds :
            /\ requests[r].pc \in {"completed", "dispatching", "recording"}
               => /\ requests'[r].pc \in {"completed", "dispatching", "recording"}
                  /\ requests'[r].configWrites = requests[r].configWrites
                  /\ requests'[r].fileWrites = requests[r].fileWrites
            /\ requests[r].pc = "recording" => ENABLED startDispatch(r)
            /\ requests[r].pc = "dispatching" => ENABLED endTurn(r)]_vars

C23_Witness ==
    \E r1, r2 \in ReqIds :
        /\ r1 < r2 /\ requests[r1].agentId = requests[r2].agentId
        /\ r1 \in Synced /\ requests[r1].configWrites = 1
        /\ requests[r2].fast /\ requests[r2].configWrites = 0
        /\ requests[r2].pc = "completed"
        /\ hashCache[requests[r2].agentId] = computeHash(requests[r2].received)

\* C24: the skill entries of a sync are merged into the configuration it
\* loaded: a field the sync sets takes the sync's value, every other field of
\* every entry keeps the value it had, entries of skills the sync does not name
\* included, and the merged configuration is the one persisted; so syncing
\* github {enabled, env X} and then github {enabled} keeps env X.
C24_SkillEntriesMerged ==
    /\ [][\A a \in SyncAgents, p \in Prompts, e \in SkillEntries, q \in BOOLEAN, o \in BOOLEAN :
            handleHookAgent(a, SyncConfig(p, e, q), o) /\ requests'[nextReq].pc = "writing"
            => LET merged == requests'[nextReq].cfg.entries IN
               \A k \in Skills, f \in SkillFields :
                   /\ e[k][f] # Missing => merged[k][f] = e[k][f]
                   /\ e[k][f] = Missing => merged[k][f] = configFile.entries[k][f]]_vars
    /\ [][\A r \in ReqIds :
            writeConfigFileDone(r, TRUE) => configFile'.entries = requests[r].cfg.entries]_vars

C24_Witness ==
    \E r1, r2 \in Synced :
        /\ r1 < r2
        /\ requests[r1].received.skillEntries["github"] = SkillEntry("true", "X1")
        /\ requests[r2].received.skillEntries["github"] = SkillEntry("true", Missing)
        /\ requests[r2].cfg.entries["github"]["env"] = "X1"
        /\ configFile.entries["github"] = SkillEntry("true", "X1")

\* C25: the record of an account is removed only by the close event or the
\* stop() of the socket the record holds; the close or the stop() of another
\* socket of the account leaves it in the registry.
C25_OnlyOwnSocketDeregisters ==
    [][\A a \in Accounts :
         activeConnections[a] # None /\ activeConnections'[a] = None
         => LET s == activeConnections[a] IN
            \/ sockets[s].readyState # "CLOSED" /\ sockets'[s].readyState = "CLOSED"
            \/ \E c \in CallIds :
                  calls[c].sock = s /\ (Stop(c) \/ Abort(c) \/ startAccountResume(c))]_vars

\* C27: config syncs of different agents may overlap; an agent whose hash is in
\* the hash cache has its synced entry in the persisted configuration, so after
\* two overlapping syncs of two agents the persisted configuration holds both
\* agents' entries.
C27_InterleavedSyncsKeepBothAgents ==
    \A a \in SyncAgents :
        hashCache[a] # NoHash
        => /\ configFile.list[a].present
           /\ \E r \in Synced : requests[r].agentId = a
                                /\ configFile.list[a].model = requests[r].received.model

\* C29: a turn whose sync wrote the system prompt file dispatches with a file
\* that holds the prompt with the suffixes the turn appended.
C29_WrittenPromptHasSuffixes ==
    \A r \in ReqIds :
        requests[r].pc = "dispatching" /\ requests[r].fileWrites > 0
        => /\ requests[r].written = requests[r].agentConfig.systemPrompt
           /\ requests[r].written =
                  requests[r].received.systemPrompt
                  \o suffixes(requests[r].isOrchestrator, requests[r].received)

\* C30: the cached configuration of an agent is the agentConfig of the latest
\* hook.agent message for that agent, as it was received.
C30_CacheHoldsReceivedConfig ==
    \A a \in SyncAgents :
        LET of == {r \in Received : requests[r].agentId = a} IN
        /\ cached[a] = None <=> of = {}
        /\ cached[a] # None
           => /\ cached[a] \in of /\ \A r \in of : r <= cached[a]
              /\ requests[cached[a]].agentConfig = requests[cached[a]].received

\* C28: every event of a turn carries the backend's session key as the
\* hook.agent message gave it.
C28_EventsCarryBackendKey ==
    routing.pc = "emitted" => routing.eventKey = routing.backendKey

\* C26: an approval request or a question of a turn is written only to sockets
\* of the account the turn arrived on, and a hook.approval or
\* hook.ask_user_answer arriving on another account's socket leaves its waiter
\* pending.
C26_AccountsIsolated ==
    /\ [](\A k \in 1..Len(broadcasts) :
            LET b == broadcasts[k] IN
            b.event \in PromptEvents
            => \A s \in b.to : sockets[s].acct = sockets[turns[corr[b.id].turn].sock].acct)
    /\ [][\A s \in SockIds, i \in CorrIds :
            /\ \/ \E ap \in BOOLEAN : handleHookApproval(s, i, ap)
               \/ handleHookAskUserAnswer(s, i, "answersA")
            /\ corr[i].promise = "pending" /\ corr[i].turn # None
            /\ sockets[s].acct # sockets[turns[corr[i].turn].sock].acct
            => corr'[i].promise = "pending"]_vars

\* C26 (amended): an approval request or a question is written to every
\* registered OPEN socket, of whichever account, and a hook.approval or
\* hook.ask_user_answer with its id arriving on any socket that is not stopped
\* resolves its waiter.
C26_DecisionsReachEveryAccount ==
    /\ [][/\ Len(broadcasts') = Len(broadcasts) + 1
          /\ broadcasts'[Len(broadcasts')].event \in PromptEvents
          => broadcasts'[Len(broadcasts')].to =
                 {s \in SockIds : /\ \E a \in Accounts : activeConnections[a] = s
                                  /\ sockets[s].readyState = "OPEN"}]_vars
    /\ [][\A s \in SockIds, i \in CorrIds :
            /\ ~sockets[s].stopped
            /\ \/ i \in approvalWaiters /\ \E ap \in BOOLEAN : handleHookApproval(s, i, ap)
               \/ i \in askUserQuestionWaiters /\ handleHookAskUserAnswer(s, i, "answersA")
            => /\ corr'[i].resolveRan
               /\ i \notin approvalWaiters' /\ i \notin askUserQuestionWaiters']_vars

C26_Witness ==
    \E k \in 1..Len(broadcasts) :
        /\ broadcasts[k].event \in PromptEvents
        /\ \E s1, s2 \in broadcasts[k].to : sockets[s1].acct # sockets[s2].acct
        /\ corr[broadcasts[k].id].promise = "resolved"
        /\ corr[broadcasts[k].id].hook \in {"proceed", "denied", "answered"}

\* C31: no step removes a tool name from an agent's session approvals.
C31_SessionApprovalsOnlyGrow ==
    [][\A a \in Agents : sessionApprovals[a] \subseteq sessionApprovals'[a]]_vars

C31_Witness ==
    \E a \in Agents, s \in SockIds :
        /\ sessionApprovals[a] = {"exec", "Read"}
        /\ agentConfigCache[a].approvals.mode = "always"
        /\ sockets[s].stopped

\* C32: a tool name enters an agent's session approvals only in the step of a
\* hook.approval with approved = true that resolves a waiter created for that
\* agent and tool under the session mode.
C32_OnlySessionGrantsRemembered ==
    [][\A a \in Agents, toolName \in HookTools :
         toolName \in sessionApprovals'[a] /\ toolName \notin sessionApprovals[a]
         => \E s \in SockIds, i \in CorrIds :
               /\ handleHookApproval(s, i, TRUE)
               /\ i \in approvalWaiters /\ corr[i].kind = "approval"
               /\ corr[i].promise = "pending"
               /\ corr[i].toolName = toolName /\ corr[i].mode = "session"
               /\ turns[corr[i].turn].agentId = a]_vars

C32_Witness ==
    /\ sessionApprovals["a1"] = {"exec"}
    /\ sessionApprovals["a2"] = {}
    /\ \E i, j \in CorrIds :
          /\ corr[i].kind = "approval" /\ corr[i].mode = "session" /\ corr[i].hook = "proceed"
          /\ corr[j].kind = "approval" /\ corr[j].hook \in {"denied", "timedOut"}
          /\ agentConfigCache["a2"] # NoConfig

\* C33: a call the hook has to ask about gets no tool.start when the hook
\* starts; an approval that is granted adds exactly the tool.start of its call,
\* a denial or a timeout adds none; a call the hook does not have to ask about
\* gets exactly one tool.start.
C33_ToolStartOnlyForRunningCalls ==
    [][/\ \A t \in TurnIds, toolName \in HookTools, questions \in 0..1 :
            beforeToolCall(t, toolName, questions)
            => LET agentId == turns[t].agentId
                   cfg == agentConfigCache[agentId]
                   asks == IF isQuestionTool(toolName)
                           THEN cfg.askUserQuestion.enabled /\ questions > 0
                           ELSE /\ cfg.approvals.enabled
                                /\ toolMatchesApprovalList(toolName, cfg.approvals.tools)
                                /\ ~(/\ cfg.approvals.mode = "session"
                                     /\ toolName \in sessionApprovals[agentId])
               IN
               IF asks
               THEN /\ Len(broadcasts') = Len(broadcasts) + 1
                    /\ broadcasts'[Len(broadcasts')].event \in PromptEvents
               ELSE /\ Len(broadcasts') = Len(broadcasts) + 1
                    /\ broadcasts'[Len(broadcasts')].event = "tool.start"
                    /\ broadcasts'[Len(broadcasts')].toolName = toolName
       /\ \A i \in CorrIds :
            corr[i].promise = "pending" /\ corr'[i].promise # "pending"
            => IF corr[i].kind = "approval" /\ corr'[i].hook = "proceed"
               THEN /\ Len(broadcasts') = Len(broadcasts) + 1
                    /\ broadcasts'[Len(broadcasts')].event = "tool.start"
                    /\ broadcasts'[Len(broadcasts')].toolName = corr[i].toolName
               ELSE corr'[i].hook \in {"denied", "timedOut"} => broadcasts' = broadcasts]_vars

\* C33 (amended): as C33, except that a call of the question tool that the
\* hook does not intercept gets no tool.start; only a call of another tool that
\* the hook does not have to ask about gets exactly one.
C33_ToolStartExceptQuestionTool ==
    [][/\ \A t \in TurnIds, toolName \in HookTools, questions \in 0..1 :
            beforeToolCall(t, toolName, questions)
            => LET agentId == turns[t].agentId
                   cfg == agentConfigCache[agentId]
                   asks == IF isQuestionTool(toolName)
                           THEN cfg.askUserQuestion.enabled /\ questions > 0
                           ELSE /\ cfg.approvals.enabled
                                /\ toolMatchesApprovalList(toolName, cfg.approvals.tools)
                                /\ ~(/\ cfg.approvals.mode = "session"
                                     /\ toolName \in sessionApprovals[agentId])
               IN
               IF asks
               THEN /\ Len(broadcasts') = Len(broadcasts) + 1
                    /\ broadcasts'[Len(broadcasts')].event \in PromptEvents
               ELSE IF isQuestionTool(toolName)
               THEN broadcasts' = broadcasts
               ELSE /\ Len(broadcasts') = Len(broadcasts) + 1
                    /\ broadcasts'[Len(broadcasts')].event = "tool.start"
                    /\ broadcasts'[Len(broadcasts')].toolName = toolName
       /\ \A i \in CorrIds :
            corr[i].promise = "pending" /\ corr'[i].promise # "pending"
            => IF corr[i].kind = "approval" /\ corr'[i].hook = "proceed"
               THEN /\ Len(broadcasts') = Len(broadcasts) + 1
                    /\ broadcasts'[Len(broadcasts')].event = "tool.start"
                    /\ broadcasts'[Len(broadcasts')].toolName = corr[i].toolName
               ELSE corr'[i].hook \in {"denied", "timedOut"} => broadcasts' = broadcasts]_vars

C33_Witness ==
    \E t \in TurnIds :
        /\ turns[t].ret = Proceeds("AskUserQuestion")
        /\ Len(broadcasts) = 2
        /\ broadcasts[1].event = "exec.approval.requested"
        /\ corr[broadcasts[1].id].hook = "proceed"
        /\ broadcasts[2].event = "tool.start"
        /\ broadcasts[2].toolName = broadcasts[1].toolName

\* C34: a turn sends at most one chat.done; the error chat.done of the
\* handler's catch is sent only by a turn that failed, which sent no other.
C34_AtMostOneChatDone ==
    \A t \in TurnIds :
        LET dones == {k \in 1..Len(turns[t].sent) : turns[t].sent[k].event = "chat.done"} IN
        /\ Cardinality(dones) <= 1
        /\ (\E k \in dones : turns[t].sent[k].err) => turns[t].pc = "failed"
        /\ (\E k \in dones : ~turns[t].sent[k].err) => turns[t].pc = "completed"

C34_Witness ==
    \E t \in TurnIds :
        /\ turns[t].pc = "failed"
        /\ turns[t].sent = <<DoneError>>

\* C36: a failure of recordInboundSession does not end the turn: typing is sent
\* and the dispatch engine is called as after a recording that succeeded.
C36_RecordFailureNotFatal ==
    [][\A t \in TurnIds :
         recordInboundSessionDone(t, FALSE)
         => /\ turns'[t].pc = "dispatching"
            /\ turns'[t].sent = emit(sockets, t, <<Typing>>)]_vars

\* C35: a frame arriving on a stopped socket starts no turn, resolves no
\* waiter, is answered by no event or pong and is not even logged, and the close
\* event of a stopped socket leaves the registry and the status as they are.
C35_StoppedSocketIgnoresFrames ==
    [][\A s \in SockIds :
         sockets[s].stopped
         => /\ \/ \E a \in Agents : HookAgent(s, a, AskAlways)
               \/ \E i \in CorrIds, ap \in BOOLEAN : handleHookApproval(s, i, ap)
               \/ \E i \in CorrIds : handleHookAskUserAnswer(s, i, "answersA")
               => UNCHANGED vars
            /\ \/ \E kind \in FrameKinds : malformedFrame(s, kind)
               \/ ping(s)
               => /\ inbound'.log = inbound.log /\ inbound'.rejections = inbound.rejections
                  /\ inbound'.pongs = inbound.pongs
                  /\ UNCHANGED <<turns, corr, approvalWaiters, askUserQuestionWaiters,
                                 broadcasts, hookLog>>
            /\ \E r \in CloseReasons : SocketClose(s, r)
               => activeConnections' = activeConnections /\ status' = status]_vars

C35_Witness ==
    \E s \in SockIds :
        /\ sockets[s].stopped /\ sockets[s].readyState = "CLOSED"
        /\ inbound.frames = MaxFrames /\ inbound.pongs = 0 /\ inbound.log = "none"
        /\ approvalWaiters # {}
        /\ status[sockets[s].acct].lastError = "null"

\* C37: the persisted entry of an agent has exec ask 'off' only if the
\* configuration synced last for the agent has approvals enabled.
C37_ExecAskFollowsLastSync ==
    \A a \in SyncAgents :
        configFile.list[a].execAsk = "off"
        => \E r \in Synced :
              /\ requests[r].agentId = a
              /\ computeHash(requests[r].received) = hashCache[a]
              /\ requests[r].received.approvals.enabled

\* C38: a collection returns only files whose hash differs from the one
\* recorded for them, and records the hash of each file it returns; it tries at
\* most 4 + 10 files and returns at most 102400 bytes.
C38_CollectsOnlyChangedWithinLimits ==
    [][collectMemory
       => LET r == memory'.result IN
          /\ \A f \in r.changed :
                /\ sha256(memory.disk[f]) # memory.memoryHashCache[f]
                /\ memory'.memoryHashCache[f] = sha256(memory.disk[f])
          /\ \A f \in MemoryNames \ r.changed :
                memory'.memoryHashCache[f] = memory.memoryHashCache[f]
          /\ r.tried <= 4 + 10
          /\ r.totalBytes = totalByteLength(memory.disk, r.changed)
          /\ r.totalBytes <= 102400]_vars

C38_Witness ==
    /\ memory.result.tried = 14
    /\ memory.disk[MemoryDirNames[11]] = "note"
    /\ memory.memoryHashCache[MemoryDirNames[11]] = NoHash
    /\ "USER.md" \in memory.result.changed
    /\ memory.disk["USER.md"] = "c1"
    /\ memory.disk["TOOLS.md"] = "c2" /\ memory.memoryHashCache["TOOLS.md"] = sha256("c1")
    /\ "TOOLS.md" \notin memory.result.changed
    /\ memory.result.totalBytes = 70000

\* C40: a hash is in the memory hash cache only for a file that was sent with
\* that hash in an agent.memory_sync event written to an OPEN socket.
C40_RecordedOnlyIfSent ==
    \A f \in MemoryNames :
        memory.memoryHashCache[f] # NoHash => <<f, memory.memoryHashCache[f]>> \in memory.sent

\* The tokenCount values reported by the first j turn ends that read the entry
\* under key, added up (an omitted tokenCount adds nothing).
RECURSIVE SumTokenCounts(_, _)
SumTokenCounts(key, j) ==
    IF j = 0 THEN 0
    ELSE SumTokenCounts(key, j - 1)
         + (IF usage.ends[j].storeKey = key THEN orZero(usage.ends[j].tokenCount) ELSE 0)

\* The cumulative totals read under key never went down from one turn end to a
\* later one.
NondecreasingTotals(key) ==
    \A i, j \in 1..Len(usage.ends) :
        i < j /\ usage.ends[i].storeKey = key /\ usage.ends[j].storeKey = key
            => usage.ends[i].cumulative <= usage.ends[j].cumulative

\* C39: the token block of a turn end runs as one step, so when the cumulative
\* totals read for a session entry never decrease, the tokenCount values
\* reported for it add up to the cumulative total recorded last: no token is
\* counted twice and none is lost.
C39_TokenCountsSumToRecordedTotal ==
    \A key \in StoreKeys :
        NondecreasingTotals(key)
            => SumTokenCounts(key, Len(usage.ends)) = orZero(usage.lastCumulativeTokens[key])

C39_Witness ==
    /\ Len(usage.ends) = 3
    /\ usage.ends[1].storeKey = "session" /\ usage.ends[1].cumulative = 1
    /\ usage.ends[2].storeKey = "main" /\ usage.ends[2].cumulative = 2
    /\ usage.ends[3].storeKey = "session" /\ usage.ends[3].cumulative = 3
    /\ usage.ends[1].tokenCount = 1 /\ usage.ends[3].tokenCount = 2
    /\ usage.lastCumulativeTokens["session"] = 3
    /\ usage.lastCumulativeTokens["main"] = 2
====
